---- MODULE Spec2Model ----
(***************************************************************************)
(* Capslock: capability analysis of Go packages.                           *)
(*                                                                         *)
(* Part I  models the call-graph search of analyzer/analyzer.go            *)
(*         (forEachPath, GetCapabilityInfo, CapabilityGraph) together with *)
(*         the orderings of analyzer/scan.go.                              *)
(* Part II models the capability-map classifier of package interesting     *)
(*         (parseCapabilityMap, LoadClassifier, FunctionCategory,          *)
(*         IncludeCall).                                                   *)
(***************************************************************************)
EXTENDS Integers, Sequences, FiniteSets, Bags, TLC

VARIABLES
    \* ---- inputs of one analysis (read-only during the search) ----
    graph,              \* callgraph.Graph: the set of call edges
    classifier,         \* Config.Classifier: function categories and ignored edges
    allFunctions,        \* what the scanner reads of each function: its body
    unsafePointerFunctions, \* functions flagged by the syntactic scanner
    queriedPackages,    \* the packages named on the command line
    \* ---- state of forEachPath / GetCapabilityInfo ----
    pc,                 \* position in the analysis
    safe,               \* nodeset of functions classified CAPABILITY_SAFE
    nodesByCapability,  \* nodesetPerCapability after mergeCapabilities
    allNodesWithExplicitCapability,
    capsTodo,           \* the sorted capabilities still to search
    cap,                \* capability of the running BFS
    visited,            \* map[*callgraph.Node]bfsState of the running BFS
    q,                  \* BFS queue
    caps,               \* []output accumulated by GetCapabilityInfo's callback
    cil,                \* the returned CapabilityInfoList
    previous,           \* the list returned by the preceding run, if any
    \* ---- output of CapabilityGraph ----
    graphCalls,         \* the (from, to) pairs passed to outputCall
    graphCaps,          \* the (fn, capability) pairs passed to outputCapability
    \* ---- package interesting ----
    internalMap,        \* the built-in classifier parsed from interestingData
    userMap,            \* the text handed to LoadClassifier, as lines
    excludeBuiltin,     \* LoadClassifier's excludeBuiltin argument
    loaded,             \* what LoadClassifier returned: classifier and error
    loaderState,        \* "off", "init", "loaded" or "asked"
    answer,             \* the last call of FunctionCategory or IncludeCall
    \* ---- graph output ----
    gb,                 \* the graphBuilder and what it has written
    edgeCalls,          \* the calls of Edge made on it
    \* ---- granularity and filter ----
    config              \* Config.Granularity and Config.CapabilitySet of the run

graphVars == <<graph, classifier, allFunctions, unsafePointerFunctions, queriedPackages>>
searchVars == <<pc, safe, nodesByCapability, allNodesWithExplicitCapability,
                capsTodo, cap, visited, q, caps, cil, previous>>
outVars == <<graphCalls, graphCaps>>
analysisVars == <<graphVars, searchVars, outVars, config>>
loaderVars == <<internalMap, userMap, excludeBuiltin, loaded, loaderState, answer>>
builderVars == <<gb, edgeCalls>>
vars == <<analysisVars, loaderVars, builderVars>>

(***************************************************************************)
(* Capabilities.  The enumeration order is the order of the Capability     *)
(* enum; forEachPath and GetCapabilityInfo compare capabilities with <.    *)
(***************************************************************************)
CapabilityEnum ==
    << "CAPABILITY_UNSPECIFIED", "CAPABILITY_SAFE", "CAPABILITY_FILES",
       "CAPABILITY_NETWORK", "CAPABILITY_RUNTIME", "CAPABILITY_READ_SYSTEM_STATE",
       "CAPABILITY_MODIFY_SYSTEM_STATE", "CAPABILITY_OPERATING_SYSTEM",
       "CAPABILITY_SYSTEM_CALLS", "CAPABILITY_ARBITRARY_EXECUTION",
       "CAPABILITY_CGO", "CAPABILITY_UNANALYZED", "CAPABILITY_UNSAFE_POINTER",
       "CAPABILITY_REFLECT", "CAPABILITY_EXEC" >>

CapabilityNumber(c) == CHOOSE i \in DOMAIN CapabilityEnum : CapabilityEnum[i] = c

(***************************************************************************)
(* Strings are compared bytewise by strings.Compare; StringOrder lists the *)
(* strings of the model in that order.                                     *)
(***************************************************************************)
StringOrder ==
    << "", "(a.T).M", "_Cfunc_GoString", "_cgo_runtime_cgocall", "a", "a.F", "a.H", "a.H[int]", "a/x.go", "a/y.go",
       "b.com/b", "b.com/b.G", "os", "os.Open" >>

StringRank(s) == CHOOSE i \in DOMAIN StringOrder : StringOrder[i] = s

stringsCompare(x, y) ==
    IF StringRank(x) < StringRank(y) THEN -1
    ELSE IF StringRank(x) > StringRank(y) THEN 1 ELSE 0

(***************************************************************************)
(* The functions of the analysed program (ssa.Function).  Package is the   *)
(* path of Func.Package().Pkg, or NoPackage when Func.Package() is nil, as *)
(* for the instantiation of a generic function; Origin is then the generic *)
(* function.  Recv tells whether the signature has a receiver.             *)
(***************************************************************************)
NoPackage == "<nil>"
NoOrigin == [Name |-> "", Package |-> NoPackage]

Funcs ==
    << [Name |-> "a.F",       Package |-> "a",       Recv |-> FALSE, Origin |-> NoOrigin],
       [Name |-> "(a.T).M",   Package |-> "a",       Recv |-> TRUE,  Origin |-> NoOrigin],
       [Name |-> "b.com/b.G", Package |-> "b.com/b", Recv |-> FALSE, Origin |-> NoOrigin],
       [Name |-> "os.Open",   Package |-> "os",      Recv |-> FALSE, Origin |-> NoOrigin],
       [Name |-> "a.H[int]",  Package |-> NoPackage, Recv |-> FALSE,
        Origin |-> [Name |-> "a.H", Package |-> "a"]] >>

Node == DOMAIN Funcs
FuncString(n) == Funcs[n].Name
NodeNamed(s) == CHOOSE n \in Node : Funcs[n].Name = s

(***************************************************************************)
(* Call-site positions (token.Position).  A position with Line = 0 is      *)
(* invalid.                                                                *)
(***************************************************************************)
NoPosition == [Filename |-> "", Line |-> 0, Column |-> 0, Offset |-> 0]
Pos(f, l, c, o) == [Filename |-> f, Line |-> l, Column |-> c, Offset |-> o]
PositionIsValid(p) == p.Line > 0

\* path.Base of the file names of the model
pathBase(f) == IF f = "a/x.go" THEN "x.go" ELSE IF f = "a/y.go" THEN "y.go" ELSE f

NoEdge == [id |-> 0, Caller |-> 0, Callee |-> 0, Position |-> NoPosition]
Edge(i, from, to, p) == [id |-> i, Caller |-> from, Callee |-> to, Position |-> p]

(***************************************************************************)
(* Orderings (analyzer/scan.go).                                           *)
(***************************************************************************)
\* packagePath: the origin's package for an instantiation of a generic function
packagePath(n) ==
    LET f == IF Funcs[n].Origin # NoOrigin THEN Funcs[n].Origin ELSE Funcs[n]
    IN  IF f.Package # NoPackage THEN f.Package ELSE ""

isStdLib(p) == p \notin {"b.com/b"}     \* !strings.Contains(p, ".")

hasReceiver(n) == Funcs[n].Recv

\* funcCompare: by package path, then functions before methods, then by name
funcCompare(a, b) ==
    LET c == stringsCompare(packagePath(a), packagePath(b))
    IN  IF c # 0 THEN c
        ELSE IF ~hasReceiver(a) /\ hasReceiver(b) THEN -1
        ELSE IF hasReceiver(a) /\ ~hasReceiver(b) THEN 1
        ELSE stringsCompare(FuncString(a), FuncString(b))

nodeCompare(a, b) == funcCompare(a, b)

\* positionLess: by file name, then by offset; invalid positions last
positionLess(p1, p2) ==
    IF p2.Line = 0 THEN p1.Line # 0
    ELSE IF p1.Line = 0 THEN FALSE
    ELSE IF p1.Filename # p2.Filename
         THEN stringsCompare(p1.Filename, p2.Filename) < 0
    ELSE p1.Offset < p2.Offset

\* callsitePosition: the invalid position for a nil edge
callsitePosition(edge) == IF edge = NoEdge THEN NoPosition ELSE edge.Position

byFunctionLess(a, b) == nodeCompare(a, b) < 0

\* a comparison that orders nothing: the edge list stays as it was iterated
byCallerUnordered(e1, e2) == FALSE

byCallerLess(e1, e2) ==
    LET c == nodeCompare(e1.Caller, e2.Caller)
    IN  IF c # 0 THEN c < 0
        ELSE positionLess(callsitePosition(e1), callsitePosition(e2))

(***************************************************************************)
(* sort.Sort and sort.Slice are not stable: applied to the elements of an  *)
(* unordered container (a map's keys, a node's edge list) they may return  *)
(* any arrangement in which no element is Less than an earlier one.  Each  *)
(* operator below is the set of those arrangements.                        *)
(***************************************************************************)
RECURSIVE sortByFunction(_)
sortByFunction(S) ==
    IF S = {} THEN { <<>> }
    ELSE UNION { { <<m>> \o t : t \in sortByFunction(S \ {m}) } :
                 m \in { x \in S : \A y \in S : ~byFunctionLess(y, x) } }

RECURSIVE sortByCaller(_)
sortByCaller(S) ==
    IF S = {} THEN { <<>> }
    ELSE UNION { { <<m>> \o t : t \in sortByCaller(S \ {m}) } :
                 m \in { x \in S : \A y \in S : ~byCallerLess(y, x) } }

capabilityLess(c1, c2) == CapabilityNumber(c1) < CapabilityNumber(c2)

RECURSIVE sortCapabilities(_)
sortCapabilities(S) ==
    IF S = {} THEN { <<>> }
    ELSE UNION { { <<m>> \o t : t \in sortCapabilities(S \ {m}) } :
                 m \in { x \in S : \A y \in S : ~capabilityLess(y, x) } }

\* the comparison of GetCapabilityInfo's final sort.Slice
outputLess(x, y) ==
    IF x.Capability # y.Capability THEN capabilityLess(x.Capability, y.Capability)
    ELSE funcCompare(x.Function, y.Function) < 0

\* the arrangements of the elements of s at the positions I
RECURSIVE sortOutputsAt(_, _)
sortOutputsAt(s, I) ==
    IF I = {} THEN { <<>> }
    ELSE UNION { { <<s[i]>> \o t : t \in sortOutputsAt(s, I \ {i}) } :
                 i \in { x \in I : \A y \in I : ~outputLess(s[y], s[x]) } }

sortOutputs(s) == sortOutputsAt(s, DOMAIN s)

Range(s) == { s[i] : i \in DOMAIN s }

(***************************************************************************)
(* The Classifier interface, as implemented by the classifier of the       *)
(* analyzer's tests: a table of categories and a set of ignored edges.     *)
(***************************************************************************)
FunctionCategoryOf(c, pkg, name) ==
    IF <<pkg, name>> \in DOMAIN c.functions THEN c.functions[<<pkg, name>>]
    ELSE "CAPABILITY_UNSPECIFIED"

IncludeCallOf(c, caller, callee) == <<caller, callee>> \notin c.ignoredEdges

(***************************************************************************)
(* nodesetPerCapability: a map from capability to nodeset; a key exists    *)
(* once a node has been added under it.                                    *)
(***************************************************************************)
EmptyNodesets == << >>

add(nc, c, node) ==
    IF c \in DOMAIN nc THEN [nc EXCEPT ![c] = @ \cup {node}]
    ELSE [k \in DOMAIN nc \cup {c} |-> IF k = c THEN {node} ELSE nc[k]]

nodesOf(nc, c) == IF c \in DOMAIN nc THEN nc[c] ELSE {}

\* getNodeCapabilities: the category of each node, by its own package and
\* name or, for an instantiation without package, by those of its origin
nodeCategory(c, v) ==
    IF Funcs[v].Package # NoPackage
    THEN FunctionCategoryOf(c, Funcs[v].Package, FuncString(v))
    ELSE IF Funcs[v].Origin = NoOrigin \/ Funcs[v].Origin.Package = NoPackage
         THEN "CAPABILITY_UNSPECIFIED"
         ELSE FunctionCategoryOf(c, Funcs[v].Origin.Package, Funcs[v].Origin.Name)

getSafe(c) == { v \in Node : nodeCategory(c, v) = "CAPABILITY_SAFE" }

getNodeCapabilities(c) ==
    LET categorized == { v \in Node : nodeCategory(c, v) \notin
                             {"CAPABILITY_SAFE", "CAPABILITY_UNSPECIFIED"} }
    IN  [ k \in { nodeCategory(c, v) : v \in categorized } |->
              { v \in categorized : nodeCategory(c, v) = k } ]

\* getExtraNodesByCapability: the findings of the syntactic scanner.  REFLECT
\* for a function that stores a reflect.Value outside its locals,
\* UNSAFE_POINTER for the functions of unsafePointerFunctions, and
\* ARBITRARY_EXECUTION for a function without blocks that is not synthetic.
extraNodes(functions, flagged, c) ==
    CASE c = "CAPABILITY_REFLECT" ->
           { n \in DOMAIN functions : functions[n].StoresReflectValue }
      [] c = "CAPABILITY_UNSAFE_POINTER" -> flagged
      [] c = "CAPABILITY_ARBITRARY_EXECUTION" ->
           { n \in DOMAIN functions : ~functions[n].Blocks /\ functions[n].Synthetic = "" }

getExtraNodesByCapability(functions, flagged) ==
    [ k \in { c \in { "CAPABILITY_REFLECT", "CAPABILITY_UNSAFE_POINTER",
                       "CAPABILITY_ARBITRARY_EXECUTION" } :
                extraNodes(functions, flagged, c) # {} }
        |-> extraNodes(functions, flagged, k) ]

explicitNodes(nc) == UNION { nc[k] : k \in DOMAIN nc }

\* a variant that adds every extra capability
mergeCapabilitiesAll(nc, extra) ==
    [ k \in DOMAIN nc \cup DOMAIN extra |-> nodesOf(nc, k) \cup nodesOf(extra, k) ]

\* mergeCapabilities: an extra capability is added to a node unless the
\* node has an explicit category
mergeCapabilities(nc, extra) ==
    LET explicit == explicitNodes(nc)
        keys == DOMAIN nc \cup { k \in DOMAIN extra : extra[k] \ explicit # {} }
    IN  [ k \in keys |-> nodesOf(nc, k) \cup (nodesOf(extra, k) \ explicit) ]

(***************************************************************************)
(* GetCapabilityInfo's callback: the CapabilityInfo of node v, whose path  *)
(* follows the edges recorded in the BFS state map (bfsState.next).        *)
(***************************************************************************)
NoSite == [Filename |-> "", Line |-> 0, Column |-> 0]

\* bfsState.next: the nodes from v along the recorded edges
RECURSIVE pathNodes(_, _)
pathNodes(nodes, v) ==
    <<v>> \o (IF nodes[v] = NoEdge THEN <<>> ELSE pathNodes(nodes, nodes[v].Callee))

functionSite(incomingEdge) ==
    LET position == callsitePosition(incomingEdge)
    IN  IF PositionIsValid(position)
        THEN [Filename |-> pathBase(position.Filename),
              Line |-> position.Line, Column |-> position.Column]
        ELSE NoSite

\* a variant for which no other package is the standard library
capabilityTypeOwnOnly(n, ns) ==
    IF \E i \in DOMAIN ns : packagePath(ns[i]) # n
    THEN "CAPABILITY_TYPE_TRANSITIVE" ELSE "CAPABILITY_TYPE_DIRECT"

capabilityType(n, ns) ==
    IF \E i \in DOMAIN ns : packagePath(ns[i]) # n /\ ~isStdLib(packagePath(ns[i]))
    THEN "CAPABILITY_TYPE_TRANSITIVE" ELSE "CAPABILITY_TYPE_DIRECT"

\* a variant that takes the package of the last function of the path
capabilityInfoLeafPackage(c, nodes, v) ==
    LET ns == pathNodes(nodes, v)
        n  == Funcs[ns[Len(ns)]].Package
    IN  [ Capability |-> c,
          Function |-> v,
          PackageDir |-> n,
          CapabilityType |-> capabilityType(n, ns),
          Path |-> [ i \in DOMAIN ns |->
                       [ Name |-> FuncString(ns[i]),
                         Site |-> functionSite(IF i = 1 THEN NoEdge ELSE nodes[ns[i - 1]]) ] ],
          DepPath |-> [ i \in DOMAIN ns |-> FuncString(ns[i]) ] ]

capabilityInfo(c, nodes, v) ==
    LET ns == pathNodes(nodes, v)
        n  == Funcs[v].Package
    IN  [ Capability |-> c,
          Function |-> v,
          PackageDir |-> n,
          CapabilityType |-> capabilityType(n, ns),
          Path |-> [ i \in DOMAIN ns |->
                       [ Name |-> FuncString(ns[i]),
                         Site |-> functionSite(IF i = 1 THEN NoEdge ELSE nodes[ns[i - 1]]) ] ],
          DepPath |-> [ i \in DOMAIN ns |-> FuncString(ns[i]) ] ]

\* a variant that only asks for a package
isQueriedAnyPackage(v, queried) == Funcs[v].Package # NoPackage

\* v.Func.Package() != nil and its package is one of the queried packages
isQueried(v, queried) == Funcs[v].Package # NoPackage /\ Funcs[v].Package \in queried

(***************************************************************************)
(* forEachPath.                                                            *)
(***************************************************************************)
\* Variants of the steps of the search with one condition left out; the
\* properties of the search stated further down fail for each of them.
rootsWithSafe(nc, safeNodes, c) == nodesOf(nc, c)
skipCallerNotExplicit(w, safeNodes, seen, explicit) == w \in safeNodes \/ w \in seen
allIncoming(g, c, v) == { edge \in g : edge.Callee = v }
enqueueFront(queue, w) == <<w>> \o queue

\* the nodes the BFS for a capability starts from
roots(nc, safeNodes, c) == nodesOf(nc, c) \ safeNodes

\* the callers the BFS does not go to: safe, already visited, or explicit
skipCaller(w, safeNodes, seen, explicit) ==
    w \in safeNodes \/ w \in seen \/ w \in explicit

\* the incoming edges of v the classifier lets the search follow
includedIncoming(g, c, v) ==
    { edge \in g : edge.Callee = v
                   /\ IncludeCallOf(c, FuncString(edge.Caller), FuncString(v)) }

\* a variant that appends the node twice
enqueueTwice(queue, w) == Append(Append(queue, w), w)

\* q = append(q, w)
enqueue(queue, w) == Append(queue, w)

\* the callbacks for the roots of the search that are in a queried package
RECURSIVE rootCallbacks(_, _, _, _)
rootCallbacks(c, nodes, queue, queried) ==
    IF queue = <<>> THEN <<>>
    ELSE (IF isQueried(Head(queue), queried)
          THEN << capabilityInfo(c, nodes, Head(queue)) >> ELSE <<>>)
         \o rootCallbacks(c, nodes, Tail(queue), queried)

\* the loop over the sorted incoming edges of one dequeued node
RECURSIVE visitEdges(_, _, _, _, _, _)
visitEdges(st, edges, c, safeNodes, explicit, queried) ==
    IF edges = <<>> THEN st
    ELSE LET edge == Head(edges)
             w == edge.Caller
         IN  IF skipCaller(w, safeNodes, DOMAIN st.visited, explicit)
             THEN visitEdges(st, Tail(edges), c, safeNodes, explicit, queried)
             ELSE LET seen == [ x \in DOMAIN st.visited \cup {w} |->
                                  IF x = w THEN edge ELSE st.visited[x] ]
                  IN  visitEdges(
                        [ visited |-> seen,
                          q |-> enqueue(st.q, w),
                          caps |-> IF isQueried(w, queried)
                                   THEN Append(st.caps, capabilityInfo(c, seen, w))
                                   ELSE st.caps ],
                        Tail(edges), c, safeNodes, explicit, queried)

(***************************************************************************)
(* CapabilityGraph.                                                        *)
(***************************************************************************)
\* searchBackwardsFromCapabilities: the nodes with a path to a capability
RECURSIVE searchBackwards(_, _, _, _, _)
searchBackwards(g, c, safeNodes, seen, frontier) ==
    IF frontier = {} THEN seen
    ELSE LET v == CHOOSE x \in frontier : TRUE
             callers == { edge.Caller : edge \in
                            { e \in g : e.Callee = v
                                        /\ IncludeCallOf(c, FuncString(e.Caller), FuncString(v)) } }
             new == { w \in callers : w \notin safeNodes /\ w \notin seen }
         IN  searchBackwards(g, c, safeNodes, seen \cup new, (frontier \ {v}) \cup new)

searchBackwardsFromCapabilities(g, c, nc, safeNodes) ==
    LET start == explicitNodes(nc) \ safeNodes
    IN  searchBackwards(g, c, safeNodes, start, start)

\* the callees searchForwardsFromQueriedFunctions goes to from node v
forwardCallees(g, c, v, canReach) ==
    { edge.Callee : edge \in
        { e \in g : e.Caller = v
                    /\ IncludeCallOf(c, FuncString(e.Caller), FuncString(v))
                    /\ e.Callee \in canReach } }

\* searchForwardsFromQueriedFunctions; out.calls and out.caps count the
\* calls of outputCall and outputCapability
RECURSIVE searchForwards(_, _, _, _, _, _, _, _)
searchForwards(g, c, nc, explicit, canReach, seen, queue, out) ==
    IF queue = {} THEN out
    ELSE LET v == CHOOSE x \in queue : TRUE
             capsOfV == { <<v, k>> : k \in { k \in DOMAIN nc : v \in nc[k] } }
             out1 == [ out EXCEPT !.caps = @ (+) SetToBag(capsOfV) ]
         IN  IF v \in explicit
             THEN searchForwards(g, c, nc, explicit, canReach, seen, queue \ {v}, out1)
             ELSE LET callees == forwardCallees(g, c, v, canReach)
                      new == callees \ seen
                      out2 == [ out1 EXCEPT !.calls =
                                  @ (+) SetToBag({ <<v, w>> : w \in callees }) ]
                  IN  searchForwards(g, c, nc, explicit, canReach,
                                     seen \cup new, (queue \ {v}) \cup new, out2)

(***************************************************************************)
(* The inputs of the model.                                                *)
(***************************************************************************)
MaxEdges == 3

EdgeUniverse ==
    { Edge(1, 1, 2, Pos("a/x.go", 3, 2, 30)),
      Edge(2, 1, 3, Pos("a/x.go", 4, 2, 40)),
      Edge(3, 2, 3, Pos("a/y.go", 2, 5, 15)),
      Edge(4, 3, 4, NoPosition),
      Edge(5, 1, 4, Pos("a/x.go", 6, 2, 60)),
      Edge(6, 1, 4, Pos("a/y.go", 1, 1, 10)),
      Edge(7, 2, 4, Pos("a/y.go", 3, 5, 25)),
      Edge(8, 3, 2, NoPosition),
      Edge(9, 2, 2, Pos("a/y.go", 4, 5, 35)),
      Edge(10, 1, 5, Pos("a/x.go", 7, 2, 70)),
      Edge(11, 3, 4, NoPosition) }

Graphs == { S \in SUBSET EdgeUniverse : Cardinality(S) <= MaxEdges }

\* What the classifier and the scanner say about one function: its category,
\* whether it converts unsafe pointers, whether it has blocks, its Synthetic
\* string, and whether it stores a reflect.Value outside its locals.
Kind(category, flagged, blocks, synthetic, reflect) ==
    [ category |-> category, flagged |-> flagged, blocks |-> blocks,
      synthetic |-> synthetic, reflect |-> reflect ]

Plain        == Kind("CAPABILITY_UNSPECIFIED", FALSE, TRUE, "", FALSE)
Flagged      == Kind("CAPABILITY_UNSPECIFIED", TRUE,  TRUE, "", FALSE)
Safe         == Kind("CAPABILITY_SAFE",        FALSE, TRUE, "", FALSE)
SafeFlagged  == Kind("CAPABILITY_SAFE",        TRUE,  TRUE, "", FALSE)
Files        == Kind("CAPABILITY_FILES",       FALSE, TRUE, "", FALSE)
FilesFlagged == Kind("CAPABILITY_FILES",       TRUE,  TRUE, "", FALSE)

\* the body of each function as the scanner reads it
functionBodies(l) ==
    [ n \in Node |-> [ Blocks |-> l[n].blocks, Synthetic |-> l[n].synthetic,
                       StoresReflectValue |-> l[n].reflect ] ]

Labellings ==
    { l \in [Node -> {Plain, Flagged, Safe, SafeFlagged, Files, FilesFlagged}] :
        /\ l[1] \in {Plain}
        /\ l[2] \in {Plain, Safe, Flagged}
        /\ l[3] \in {Plain, Safe, Files, Flagged, SafeFlagged}
        /\ l[4] \in {Files, Flagged, SafeFlagged, FilesFlagged}
        /\ l[5] \in {Files} }

\* the key under which getNodeCapabilities looks a node up
categoryKey(n) ==
    IF Funcs[n].Package # NoPackage THEN <<Funcs[n].Package, FuncString(n)>>
    ELSE <<Funcs[n].Origin.Package, Funcs[n].Origin.Name>>

functionsTable(l) ==
    [ k \in { categoryKey(n) : n \in { m \in Node : l[m].category # "CAPABILITY_UNSPECIFIED" } }
        |-> l[CHOOSE n \in Node : categoryKey(n) = k].category ]

IgnoredEdges == { <<"a.F", "b.com/b.G">> }

QueriedPackageSets == { {"a"}, {"a", "b.com/b"} }

\* functions without a body, and functions that store a reflect.Value
Bodyless            == Kind("CAPABILITY_UNSPECIFIED",  FALSE, FALSE, "", FALSE)
SyntheticBodyless   == Kind("CAPABILITY_UNSPECIFIED",  FALSE, FALSE, "from object file", FALSE)
SafeBodyless        == Kind("CAPABILITY_SAFE",         FALSE, FALSE, "", FALSE)
SystemCallsBodyless == Kind("CAPABILITY_SYSTEM_CALLS", FALSE, FALSE, "", FALSE)
Reflects            == Kind("CAPABILITY_UNSPECIFIED",  FALSE, TRUE,  "", TRUE)
FilesReflects       == Kind("CAPABILITY_FILES",        FALSE, TRUE,  "", TRUE)

ScannerLabellings ==
    { l \in [Node -> { Plain, Files, Bodyless, SyntheticBodyless, SafeBodyless,
                       SystemCallsBodyless, Reflects, FilesReflects }] :
        /\ l[1] \in {Plain, Reflects}
        /\ l[2] \in {Plain, Bodyless}
        /\ l[3] \in {Bodyless, SyntheticBodyless, SafeBodyless, SystemCallsBodyless}
        /\ l[4] \in {Files, FilesReflects}
        /\ l[1] = Reflects <=> l[4] = FilesReflects
        /\ l[5] \in {Files} }

\* the state before GetCapabilityInfo or CapabilityGraph is called, for the
\* programs of a set of labellings
InitWith(graphs, labellings) ==
    /\ graph \in graphs
    /\ \E l \in labellings :
         /\ classifier = [ functions |-> functionsTable(l), ignoredEdges |-> IgnoredEdges ]
         /\ unsafePointerFunctions = { n \in Node : l[n].flagged }
         /\ allFunctions = functionBodies(l)
    /\ queriedPackages \in QueriedPackageSets
    /\ pc = "idle"
    /\ safe = {}
    /\ nodesByCapability = EmptyNodesets
    /\ allNodesWithExplicitCapability = {}
    /\ capsTodo = <<>>
    /\ cap = "CAPABILITY_UNSPECIFIED"
    /\ visited = << >>
    /\ q = <<>>
    /\ caps = <<>>
    /\ cil = <<>>
    /\ previous = <<>>
    /\ graphCalls = EmptyBag
    /\ graphCaps = EmptyBag
    /\ internalMap = << >>
    /\ userMap = << >>
    /\ excludeBuiltin = FALSE
    /\ loaded = << >>
    /\ loaderState = "off"
    /\ answer = << >>
    /\ gb = << >>
    /\ edgeCalls = << >>
    /\ config = << >>

InitAnalysis(labellings) == InitWith(Graphs, labellings)

Init == InitAnalysis(Labellings)

InitScanner == InitAnalysis(ScannerLabellings)

(***************************************************************************)
(* forEachPath as called by GetCapabilityInfo, one step per dequeued node. *)
(***************************************************************************)
\* getPackageNodesWithCapability, mergeCapabilities and the sorted list of
\* capabilities
Start ==
    /\ pc = "idle"
    /\ LET nc == getNodeCapabilities(classifier)
           extra == getExtraNodesByCapability(allFunctions, unsafePointerFunctions)
           merged == mergeCapabilities(nc, extra)
       IN  /\ safe' = getSafe(classifier)
           /\ nodesByCapability' = merged
           /\ allNodesWithExplicitCapability' = explicitNodes(nc)
           /\ capsTodo' \in sortCapabilities(DOMAIN merged)
    /\ pc' = "search"
    /\ UNCHANGED <<loaderVars, builderVars, config, graphVars, cap, visited, q, caps, cil, previous, outVars>>

\* the next capability: the queue of its sorted roots, and the callback for
\* each root in a queried package
NextCapability ==
    /\ pc = "search" /\ q = <<>> /\ capsTodo # <<>>
    /\ LET c == Head(capsTodo)
           start == roots(nodesByCapability, safe, c)
           nodes == [ v \in start |-> NoEdge ]
       IN  /\ cap' = c
           /\ visited' = nodes
           /\ \E queue \in sortByFunction(start) :
                /\ q' = queue
                /\ caps' = caps \o rootCallbacks(c, nodes, queue, queriedPackages)
    /\ capsTodo' = Tail(capsTodo)
    /\ UNCHANGED <<loaderVars, builderVars, config, graphVars, pc, safe, nodesByCapability,
                   allNodesWithExplicitCapability, cil, previous, outVars>>

\* one iteration of the BFS loop: dequeue v and go to its callers
Visit ==
    /\ pc = "search" /\ q # <<>>
    /\ LET v == Head(q)
       IN  \E incomingEdges \in sortByCaller(includedIncoming(graph, classifier, v)) :
             LET st == visitEdges([visited |-> visited, q |-> Tail(q), caps |-> caps],
                                  incomingEdges, cap, safe,
                                  allNodesWithExplicitCapability, queriedPackages)
             IN  /\ visited' = st.visited
                 /\ q' = st.q
                 /\ caps' = st.caps
    /\ UNCHANGED <<loaderVars, builderVars, config, graphVars, pc, safe, nodesByCapability,
                   allNodesWithExplicitCapability, capsTodo, cap, cil, previous, outVars>>

\* GetCapabilityInfo sorts what the callback collected and returns it
Return ==
    /\ pc = "search" /\ q = <<>> /\ capsTodo = <<>>
    /\ cil' \in sortOutputs(caps)
    /\ pc' = "done"
    /\ UNCHANGED <<loaderVars, builderVars, config, graphVars, safe, nodesByCapability, allNodesWithExplicitCapability,
                   capsTodo, cap, visited, q, caps, previous, outVars>>

\* a second run of GetCapabilityInfo on the same inputs
RunAgain ==
    /\ pc = "done" /\ previous = <<>>
    /\ previous' = <<cil>>
    /\ pc' = "idle"
    /\ safe' = {}
    /\ nodesByCapability' = EmptyNodesets
    /\ allNodesWithExplicitCapability' = {}
    /\ capsTodo' = <<>>
    /\ cap' = "CAPABILITY_UNSPECIFIED"
    /\ visited' = << >>
    /\ q' = <<>>
    /\ caps' = <<>>
    /\ cil' = <<>>
    /\ UNCHANGED <<loaderVars, builderVars, config, graphVars, outVars>>

\* CapabilityGraph on the same inputs
CapabilityGraph ==
    /\ pc = "idle" /\ previous = <<>>
    /\ LET nc == getNodeCapabilities(classifier)
           extra == getExtraNodesByCapability(allFunctions, unsafePointerFunctions)
           merged == mergeCapabilities(nc, extra)
           explicit == explicitNodes(nc)
           safeNodes == getSafe(classifier)
           canReachCapability ==
               searchBackwardsFromCapabilities(graph, classifier, merged, safeNodes)
           canBeReachedFromQuery ==
               { v \in canReachCapability : isQueried(v, queriedPackages) }
           out == searchForwards(graph, classifier, merged, explicit,
                                 canReachCapability, canBeReachedFromQuery,
                                 canBeReachedFromQuery,
                                 [calls |-> EmptyBag, caps |-> EmptyBag])
       IN  /\ graphCalls' = out.calls
           /\ graphCaps' = out.caps
    /\ pc' = "graph"
    /\ UNCHANGED <<loaderVars, builderVars, config, graphVars, safe, nodesByCapability, allNodesWithExplicitCapability,
                   capsTodo, cap, visited, q, caps, cil, previous>>

Next ==
    \/ Start
    \/ NextCapability
    \/ Visit
    \/ Return
    \/ RunAgain
    \/ CapabilityGraph

Spec == Init /\ [][Next]_vars

SpecScanner == InitScanner /\ [][Next]_vars

(***************************************************************************)
(* Properties of the search.  The notions below are stated from the inputs *)
(* of the analysis, not from the state of the search.                      *)
(***************************************************************************)
IsSafe(n) == nodeCategory(classifier, n) = "CAPABILITY_SAFE"

IsExplicit(n) ==
    nodeCategory(classifier, n) \notin {"CAPABILITY_SAFE", "CAPABILITY_UNSPECIFIED"}

\* n is labelled c after merging: by the classifier, or by the scanner when
\* the classifier gives n no capability of its own
ScannerDerived(n, c) ==
    \/ c = "CAPABILITY_UNSAFE_POINTER" /\ n \in unsafePointerFunctions
    \/ c = "CAPABILITY_REFLECT" /\ allFunctions[n].StoresReflectValue
    \/ /\ c = "CAPABILITY_ARBITRARY_EXECUTION"
       /\ ~allFunctions[n].Blocks
       /\ allFunctions[n].Synthetic = ""

Labelled(n, c) ==
    \/ IsExplicit(n) /\ nodeCategory(classifier, n) = c
    \/ ~IsExplicit(n) /\ ScannerDerived(n, c)

Included(e) == <<FuncString(e.Caller), FuncString(e.Callee)>> \notin classifier.ignoredEdges

\* the findings GetCapabilityInfo has returned
Findings == Range(cil)

PathFunctions(f) == [ i \in DOMAIN f.Path |-> NodeNamed(f.Path[i].Name) ]

\* C1: a function the classifier calls Safe is never reported, is on no
\* witness path, and is no endpoint of a call and no capability incidence in
\* the output of CapabilityGraph, whether or not the scanner flagged it.
SafeNeverReported ==
    /\ \A f \in Findings :
         /\ ~IsSafe(f.Function)
         /\ \A i \in DOMAIN f.Path : ~IsSafe(NodeNamed(f.Path[i].Name))
    /\ \A call \in BagToSet(graphCalls) : ~IsSafe(call[1]) /\ ~IsSafe(call[2])
    /\ \A inc \in BagToSet(graphCaps) : ~IsSafe(inc[1])

\* a Safe function the scanner flagged is called from a reported function
SafeFlaggedCalleeSeen ==
    /\ pc = "done"
    /\ \E e \in graph :
         /\ IsSafe(e.Callee) /\ e.Callee \in unsafePointerFunctions
         /\ Included(e)
         /\ \E f \in Range(cil) : f.Function = e.Caller

\* C2: in a finding only the last function of the path may be explicitly
\* categorized, and an explicitly categorized function is reported for its
\* own category only.
ExplicitOnlyLast ==
    \A f \in Findings :
      /\ \A i \in DOMAIN f.Path :
           i < Len(f.Path) => ~IsExplicit(NodeNamed(f.Path[i].Name))
      /\ IsExplicit(f.Function) => f.Capability = nodeCategory(classifier, f.Function)

\* an explicitly categorized function calls a function labelled with another
\* capability and has a reported caller
ExplicitCallerOfOtherCapability ==
    /\ pc = "done"
    /\ \E e1, e2 \in graph :
         /\ e1.Callee = e2.Caller /\ Included(e1) /\ Included(e2)
         /\ IsExplicit(e2.Caller)
         /\ Labelled(e2.Callee, "CAPABILITY_UNSAFE_POINTER")
         /\ ~IsSafe(e2.Callee)
         /\ \E f \in Range(cil) :
              f.Function = e1.Caller /\ f.Capability = nodeCategory(classifier, e2.Caller)

\* the nodes with a path of at most k edges to a node of T on which every
\* edge is included by the classifier and every node before the last is
\* neither Safe nor explicitly categorized
\* one more edge in front of the paths that lead to R
Before(R) ==
    R \cup { u \in Node :
               /\ ~IsSafe(u) /\ ~IsExplicit(u)
               /\ \E e \in graph : e.Caller = u /\ Included(e) /\ e.Callee \in R }

RECURSIVE Reach(_, _)
Reach(k, T) ==
    IF k = 0 THEN T
    ELSE UNION { Before(R) : R \in { Reach(k - 1, T) } }

\* the nodes with such a path of any length
RECURSIVE Closure(_)
Closure(R) == UNION { IF B = R THEN R ELSE Closure(B) : B \in { Before(R) } }

Longest == Cardinality(Node)

\* the non-Safe nodes labelled c, and all nodes labelled c
Targets(c) == { n \in Node : Labelled(n, c) /\ ~IsSafe(n) }
AllLabelled(c) == { n \in Node : Labelled(n, c) }

\* a function belongs to a queried package when it has a package and that
\* package is queried
InQueriedPackage(u) == Funcs[u].Package # NoPackage /\ Funcs[u].Package \in queriedPackages

\* R is the set of nodes with an admissible path to a non-Safe node labelled c
ExpectedFinding(u, c, R) ==
    /\ InQueriedPackage(u)
    /\ ~IsSafe(u)
    /\ \/ Labelled(u, c)
       \/ ~IsExplicit(u) /\ u \in R

\* C3: GetCapabilityInfo returns exactly one finding for (u, c) when u is in
\* a queried package, is not Safe, and is labelled c or is not explicitly
\* categorized and has an admissible path to a non-Safe node labelled c; it
\* returns no finding for any other pair.
ExactlyTheExpectedFindings ==
    pc = "done" =>
      \A c \in Range(CapabilityEnum) :
        IF AllLabelled(c) = {}
        THEN \A f \in Range(cil) : f.Capability # c
        ELSE \A R \in { Closure(Targets(c)) } :
               \A u \in Node :
                 Cardinality({ i \in DOMAIN cil :
                                 cil[i].Function = u /\ cil[i].Capability = c })
                   = IF ExpectedFinding(u, c, R) THEN 1 ELSE 0

\* a function is reported both for its own label and for a capability it
\* reaches, and a function whose only call of a labelled function is an
\* ignored edge is not reported
TwoFindingsOneFunction ==
    /\ pc = "done"
    /\ \E i, j \in DOMAIN cil :
         /\ cil[i].Function = cil[j].Function
         /\ cil[i].Capability # cil[j].Capability
         /\ Len(cil[i].Path) = 1 /\ Len(cil[j].Path) > 1
    /\ \E e \in graph :
         /\ ~Included(e) /\ InQueriedPackage(e.Caller)
         /\ e.Callee \in Targets("CAPABILITY_UNSAFE_POINTER")
         /\ \A f \in Range(cil) : f.Function # e.Caller

\* C4: a finding's path is not empty; its first element is the reported
\* function, in a queried package and without call site; its last element
\* is labelled with the finding's capability; every two consecutive
\* elements are caller and callee of an included call-graph edge whose
\* position is the site recorded on the callee.
PathsAreCallChains ==
    \A f \in Findings :
      /\ Len(f.Path) >= 1
      /\ f.Path[1].Name = FuncString(f.Function)
      /\ InQueriedPackage(f.Function)
      /\ f.Path[1].Site = NoSite
      /\ Labelled(NodeNamed(f.Path[Len(f.Path)].Name), f.Capability)
      /\ \A i \in 1 .. (Len(f.Path) - 1) :
           \E e \in graph :
             /\ FuncString(e.Caller) = f.Path[i].Name
             /\ FuncString(e.Callee) = f.Path[i + 1].Name
             /\ Included(e)
             /\ f.Path[i + 1].Site =
                  (IF e.Position.Line > 0
                   THEN [Filename |-> pathBase(e.Position.Filename),
                         Line |-> e.Position.Line, Column |-> e.Position.Column]
                   ELSE NoSite)

\* a returned path of three calls, the first with a call site and the last
\* without one
LongPathWithAndWithoutSites ==
    /\ pc = "done"
    /\ \E f \in Range(cil) :
         /\ Len(f.Path) = 4
         /\ f.Path[2].Site # NoSite
         /\ f.Path[4].Site = NoSite

\* the path of f has the fewest edges among the admissible paths from its
\* function to a node of T
FewestEdges(f, T) ==
    \E k \in 0 .. Longest :
      /\ k = Len(f.Path) - 1
      /\ f.Function \in Reach(k, T)
      /\ k > 0 => f.Function \notin Reach(k - 1, T)

\* C5, as stated: the witness path of a finding (c, u) has the fewest edges
\* among the admissible paths from u to any node labelled c.
ShortestToAnyLabelled ==
    \A f \in Findings : FewestEdges(f, AllLabelled(f.Capability))

\* C5: the witness path of a finding (c, u) has the fewest edges among the
\* admissible paths from u to any node labelled c that is not Safe.
ShortestToAnyLabelledNotSafe ==
    \A f \in Findings : FewestEdges(f, Targets(f.Capability))

\* a graph with a cycle in which a reported function has a farther node
\* labelled with the capability than the one its path ends at
NearerOfTwoLabelledWithCycle ==
    /\ pc = "done"
    /\ \E e \in graph : e.Caller = e.Callee
    /\ \E f \in Range(cil) :
         /\ Len(f.Path) >= 2
         /\ \E t \in Targets(f.Capability) :
              /\ FuncString(t) # f.Path[Len(f.Path)].Name
              /\ f.Function \in Closure({t}) \ Reach(Len(f.Path) - 1, {t})

\* C6: a second run of the analysis on the same inputs returns the same
\* findings with the same paths in the same order, whatever arrangement the
\* sorts leave equal elements in.
SecondRunIdentical ==
    (pc = "done" /\ previous # <<>>) => cil = previous[1]

\* the second run has returned; the reported function calls the end of its
\* path at two call sites and another function is reported too
SecondRunWithTwoCallSites ==
    /\ pc = "done" /\ previous # <<>>
    /\ Len(cil) >= 2
    /\ \E e1, e2 \in graph :
         /\ e1 # e2 /\ e1.Caller = e2.Caller /\ e1.Callee = e2.Callee
         /\ e1.Position # e2.Position
         /\ \E f \in Range(cil) :
              /\ Len(f.Path) = 2
              /\ f.Function = e1.Caller
              /\ f.Path[2].Name = FuncString(e1.Callee)

(***************************************************************************)
(* Part II.  Package interesting: the capability-map classifier.           *)
(*                                                                         *)
(* A string is a sequence of chunks, so that prefixes and suffixes are     *)
(* real: "CAPABILITY_FILES" is <<"CAPABILITY_", "FILES">> and the empty    *)
(* string is << >>.  A line of a map is the sequence of its whitespace-    *)
(* separated tokens, with "#" a token of its own.                          *)
(***************************************************************************)
W(s) == <<s>>

HasPrefix(s, prefix) ==
    Len(prefix) <= Len(s) /\ SubSeq(s, 1, Len(prefix)) = prefix

HasSuffix(s, suffix) ==
    Len(suffix) <= Len(s) /\ SubSeq(s, Len(s) - Len(suffix) + 1, Len(s)) = suffix

\* strings.CutPrefix
CutPrefix(s, prefix) ==
    IF HasPrefix(s, prefix)
    THEN [after |-> SubSeq(s, Len(prefix) + 1, Len(s)), found |-> TRUE]
    ELSE [after |-> s, found |-> FALSE]

\* the names of the Capability enum without their prefix, in enum order
CapabilityNames ==
    << "UNSPECIFIED", "SAFE", "FILES", "NETWORK", "RUNTIME", "READ_SYSTEM_STATE",
       "MODIFY_SYSTEM_STATE", "OPERATING_SYSTEM", "SYSTEM_CALLS",
       "ARBITRARY_EXECUTION", "CGO", "UNANALYZED", "UNSAFE_POINTER", "REFLECT",
       "EXEC" >>

\* the keys of cpb.Capability_value
Capability_value == { <<"CAPABILITY_", CapabilityNames[i]>> : i \in DOMAIN CapabilityNames }

\* strings.Split(text, "#")[0] followed by strings.Fields
RECURSIVE fieldsBeforeComment(_)
fieldsBeforeComment(text) ==
    IF text = << >> \/ Head(text) = W("#") THEN << >>
    ELSE <<Head(text)>> \o fieldsBeforeComment(Tail(text))

\* Type Classifier
newClassifier ==
    [ functionCategory   |-> << >>,
      unanalyzedCategory |-> << >>,
      packageCategory    |-> << >>,
      ignoredEdges       |-> {},
      cgoSuffixes        |-> << >> ]

\* m[k] = v
put(m, k, v) == [ x \in DOMAIN m \cup {k} |-> IF x = k THEN v ELSE m[x] ]

\* a variant of parseCapability that takes any name with the prefix
parseCapabilityAnyPrefixed(c) ==
    LET cut == CutPrefix(c, W("CAPABILITY_"))
    IN  IF cut.found /\ cut.after = W("UNSPECIFIED") THEN [s |-> << >>, ok |-> TRUE]
        ELSE [s |-> cut.after, ok |-> TRUE]

\* parseCapability: the short form of a capability written with the
\* CAPABILITY_ prefix; any other string unchanged
parseCapability(c) ==
    LET cut == CutPrefix(c, W("CAPABILITY_"))
    IN  IF cut.found
        THEN IF c \notin Capability_value THEN [s |-> << >>, ok |-> FALSE]
             ELSE IF cut.after = W("UNSPECIFIED") THEN [s |-> << >>, ok |-> TRUE]
             ELSE [s |-> cut.after, ok |-> TRUE]
        ELSE [s |-> c, ok |-> TRUE]

\* return nil, fmt.Errorf("%v:%v: ...", source, line)
parseError(source, line, what) ==
    [ classifier |-> << >>,
      err |-> << [source |-> source, line |-> line, what |-> what] >> ]

\* parseCapabilityMap from line `line` on, with the classifier built so far
RECURSIVE parseFrom(_, _, _, _)
parseFrom(source, r, line, ret) ==
    IF line = Len(r) THEN [classifier |-> <<ret>>, err |-> << >>]
    ELSE
      LET n == line + 1
          args == fieldsBeforeComment(r[n])
      IN  IF Len(args) = 0 THEN parseFrom(source, r, n, ret)
          ELSE IF Len(args) < 2 THEN parseError(source, n, "invalid format")
          ELSE IF args[1] = W("cgo_suffix")
          THEN parseFrom(source, r, n,
                         [ret EXCEPT !.cgoSuffixes = Append(@, args[2])])
          ELSE IF args[1] = W("func")
          THEN IF Len(args) < 3 THEN parseError(source, n, "invalid func format")
               ELSE IF args[2] \in DOMAIN ret.functionCategory
               THEN parseError(source, n, "duplicate func key")
               ELSE IF ~parseCapability(args[3]).ok
               THEN parseError(source, n, "unsupported capability")
               ELSE parseFrom(source, r, n,
                              [ret EXCEPT !.functionCategory =
                                 put(@, args[2], parseCapability(args[3]).s)])
          ELSE IF args[1] = W("ignore_edge")
          THEN IF Len(args) < 3 THEN parseError(source, n, "invalid ignore_edge format")
               ELSE IF <<args[2], args[3]>> \in ret.ignoredEdges
               THEN parseError(source, n, "duplicate ignore_edge key")
               ELSE parseFrom(source, r, n,
                              [ret EXCEPT !.ignoredEdges = @ \cup {<<args[2], args[3]>>}])
          ELSE IF args[1] = W("package")
          THEN IF Len(args) < 3 THEN parseError(source, n, "invalid package format")
               ELSE IF args[2] \in DOMAIN ret.packageCategory
               THEN parseError(source, n, "duplicate package key")
               ELSE IF ~parseCapability(args[3]).ok
               THEN parseError(source, n, "unsupported capability")
               ELSE parseFrom(source, r, n,
                              [ret EXCEPT !.packageCategory =
                                 put(@, args[2], parseCapability(args[3]).s)])
          ELSE IF args[1] = W("unanalyzed")
          THEN IF args[2] \in DOMAIN ret.unanalyzedCategory
               THEN parseError(source, n, "duplicate unanalyzed key")
               ELSE parseFrom(source, r, n,
                              [ret EXCEPT !.unanalyzedCategory =
                                 put(@, args[2], W("UNANALYZED"))])
          ELSE parseError(source, n, "unsupported keyword")

parseCapabilityMap(source, r) == parseFrom(source, r, 0, newClassifier)

\* the embedded map interesting.cm: entries of each kind, with the
\* categories the package's tests expect of the built-in classifier
interestingData ==
    << << W("#"), W("capability"), W("map") >>,
       << W("cgo_suffix"), W("_Cfunc_GoString") >>,
       << W("func"), W("os.Open"), <<"CAPABILITY_", "FILES">> >>,
       << W("func"), W("fmt.Sprintf"), <<"CAPABILITY_", "SAFE">> >>,
       << W("func"), W("(*runtime.Func).Name"), <<"CAPABILITY_", "SAFE">> >>,
       << >>,
       << W("unanalyzed"), W("runtime.morestack") >>,
       << W("package"), W("os"), <<"CAPABILITY_", "OPERATING_SYSTEM">> >>,
       << W("package"), W("runtime"), <<"CAPABILITY_", "RUNTIME">> >>,
       << W("ignore_edge"), W("fmt.Sprintf"), W("os.Open") >> >>

\* parseInternalMapOrDie: the classifier of the embedded map
parseInternalMapOrDie == parseCapabilityMap(W("internal"), interestingData).classifier[1]

\* DefaultClassifier
DefaultClassifier == internalMap

\* a variant that keeps the entries dst already has
mapsCopyKeeping(dst, src) ==
    [ k \in DOMAIN dst \cup DOMAIN src |-> IF k \in DOMAIN dst THEN dst[k] ELSE src[k] ]

\* maps.Copy(dst, src)
mapsCopy(dst, src) ==
    [ k \in DOMAIN dst \cup DOMAIN src |-> IF k \in DOMAIN src THEN src[k] ELSE dst[k] ]

\* the merge step cc(dst, src) of LoadClassifier
cc(dst, src) ==
    [ functionCategory   |-> mapsCopy(dst.functionCategory, src.functionCategory),
      unanalyzedCategory |-> mapsCopy(dst.unanalyzedCategory, src.unanalyzedCategory),
      packageCategory    |-> mapsCopy(dst.packageCategory, src.packageCategory),
      ignoredEdges       |-> dst.ignoredEdges \cup src.ignoredEdges,
      cgoSuffixes        |-> dst.cgoSuffixes \o src.cgoSuffixes ]

\* sort.Strings followed by slices.Compact, for strings of one chunk
RECURSIVE sortedCompact(_)
sortedCompact(S) ==
    IF S = {} THEN << >>
    ELSE LET m == CHOOSE x \in S : \A y \in S : StringRank(x[1]) <= StringRank(y[1])
         IN  <<m>> \o sortedCompact(S \ {m})

\* LoadClassifier
LoadClassifier(source, r, exclude) ==
    LET user == parseCapabilityMap(source, r)
    IN  IF user.err # << >> THEN [classifier |-> << >>, err |-> user.err]
        ELSE IF exclude THEN user
        ELSE LET merged == cc(cc(newClassifier, internalMap), user.classifier[1])
             IN  [ classifier |->
                     << [merged EXCEPT !.cgoSuffixes = sortedCompact(Range(@))] >>,
                   err |-> << >> ]

\* (*Classifier).IncludeCall
IncludeCall(c, caller, callee) == <<caller, callee>> \notin internalMap.ignoredEdges

\* a variant that looks for the function's package before the function
FunctionCategoryPackageFirst(c, pkg, name) ==
    IF \E i \in DOMAIN c.cgoSuffixes : HasSuffix(name, c.cgoSuffixes[i])
    THEN W("CGO")
    ELSE IF pkg \in DOMAIN c.packageCategory THEN c.packageCategory[pkg]
    ELSE IF name \in DOMAIN c.functionCategory THEN c.functionCategory[name]
    ELSE IF name \in DOMAIN c.unanalyzedCategory THEN c.unanalyzedCategory[name]
    ELSE << >>

\* (*Classifier).FunctionCategory
FunctionCategory(c, pkg, name) ==
    IF \E i \in DOMAIN c.cgoSuffixes : HasSuffix(name, c.cgoSuffixes[i])
    THEN W("CGO")
    ELSE IF name \in DOMAIN c.functionCategory THEN c.functionCategory[name]
    ELSE IF name \in DOMAIN c.unanalyzedCategory THEN c.unanalyzedCategory[name]
    ELSE IF pkg \in DOMAIN c.packageCategory THEN c.packageCategory[pkg]
    ELSE << >>

(***************************************************************************)
(* The user maps of the model: at most MaxLines lines of LineUniverse.     *)
(***************************************************************************)
MaxLines == 2

LineUniverse ==
    { << >>,
      << W("#"), W("func") >>,
      << W("func"), W("os.Open"), <<"CAPABILITY_", "NETWORK">> >>,
      << W("func"), W("fmt.Sprintf"), W("FILEZ") >>,
      << W("func"), W("fmt.Sprintf"), <<"CAPABILITY_", "FILEZ">> >>,
      << W("func"), W("os.Open"), W("#"), W("FILES") >>,
      << W("func"), <<"foo.X", "_Cfunc_GoString">>, W("FILES") >>,
      << W("func"), W("os.Open"), <<"CAPABILITY_", "UNSPECIFIED">> >>,
      << W("func"), W("os.Open"), <<"CAPABILITY_", "UNANALYZED">> >>,
      << W("package"), W("runtime"), W("NETWORK") >>,
      << W("unanalyzed"), W("fmt.Sprintf") >>,
      << W("unanalyzed") >>,
      << W("ignore_edge"), W("a.F"), W("os.Open") >>,
      << W("cgo_suffix"), W("_cgo_runtime_cgocall") >>,
      << W("bogus"), W("os.Open"), W("FILES") >> }

UserMaps == UNION { [1 .. n -> LineUniverse] : n \in 0 .. MaxLines }

SourceName == W("user.cm")

\* the packages and function names FunctionCategory is asked about
PackageUniverse == { W("os"), W("fmt"), W("runtime"), W("foo") }

NameUniverse ==
    { W("os.Open"), W("os.Other"), W("fmt.Sprintf"), W("(*runtime.Func).Name"),
      W("runtime.morestack"), <<"foo.X", "_Cfunc_GoString">>,
      <<"foo.Y", "_cgo_runtime_cgocall">> }

\* the calls IncludeCall is asked about
CallUniverse ==
    { <<W("a.F"), W("os.Open")>>, <<W("fmt.Sprintf"), W("os.Open")>>,
      <<W("os.Open"), W("a.F")>> }

\* the state of a process that has loaded the package and called nothing
InitIdle ==
    /\ internalMap = parseInternalMapOrDie
    /\ userMap = << >>
    /\ excludeBuiltin = FALSE
    /\ loaded = << >>
    /\ loaderState = "init"
    /\ answer = << >>
    /\ graph = {}
    /\ classifier = [ functions |-> << >>, ignoredEdges |-> {} ]
    /\ unsafePointerFunctions = {}
    /\ allFunctions = << >>
    /\ queriedPackages = {}
    /\ pc = "off"
    /\ safe = {}
    /\ nodesByCapability = EmptyNodesets
    /\ allNodesWithExplicitCapability = {}
    /\ capsTodo = <<>>
    /\ cap = "CAPABILITY_UNSPECIFIED"
    /\ visited = << >>
    /\ q = <<>>
    /\ caps = <<>>
    /\ cil = <<>>
    /\ previous = <<>>
    /\ graphCalls = EmptyBag
    /\ graphCaps = EmptyBag
    /\ config = << >>

InitClassifier ==
    /\ InitIdle
    /\ gb = << >>
    /\ edgeCalls = << >>

\* a call of LoadClassifier
CallLoadClassifier ==
    /\ loaderState = "init"
    /\ \E r \in UserMaps, exclude \in BOOLEAN :
         /\ userMap' = r
         /\ excludeBuiltin' = exclude
         /\ loaded' = LoadClassifier(SourceName, r, exclude)
    /\ loaderState' = "loaded"
    /\ UNCHANGED <<analysisVars, builderVars, internalMap, answer>>

\* the classifiers a caller may hold: the built-in one and the loaded one
Classifiers ==
    { [which |-> "default", c |-> DefaultClassifier] }
      \cup (IF loaderState # "init" /\ loaded.classifier # << >>
            THEN { [which |-> "loaded", c |-> loaded.classifier[1]] } ELSE {})

\* a call of FunctionCategory
CallFunctionCategory ==
    /\ loaderState \in {"init", "loaded"}
    /\ \E x \in Classifiers, pkg \in PackageUniverse, name \in NameUniverse :
         answer' = [ op |-> "FunctionCategory", which |-> x.which, pkg |-> pkg,
                     name |-> name, result |-> FunctionCategory(x.c, pkg, name) ]
    /\ loaderState' = "asked"
    /\ UNCHANGED <<analysisVars, builderVars, internalMap, userMap, excludeBuiltin, loaded>>

\* ClassifierExcludingUnanalyzed: a copy with a nil unanalyzedCategory
ClassifierExcludingUnanalyzed(c) == [c EXCEPT !.unanalyzedCategory = << >>]

\* GetClassifier
GetClassifier(excludeUnanalyzed) ==
    IF excludeUnanalyzed THEN ClassifierExcludingUnanalyzed(DefaultClassifier)
    ELSE DefaultClassifier

\* a call of FunctionCategory on the classifier without unanalyzed entries
\* made from one of the classifiers, and the same call on that classifier
CallFunctionCategoryExcludingUnanalyzed ==
    /\ loaderState \in {"init", "loaded"}
    /\ \E x \in Classifiers, pkg \in PackageUniverse, name \in NameUniverse :
         LET without == IF x.which = "default" THEN GetClassifier(TRUE)
                        ELSE ClassifierExcludingUnanalyzed(x.c)
         IN  answer' = [ op |-> "FunctionCategoryExcludingUnanalyzed",
                         which |-> x.which, pkg |-> pkg, name |-> name,
                         result |-> FunctionCategory(without, pkg, name),
                         original |-> FunctionCategory(x.c, pkg, name) ]
    /\ loaderState' = "asked"
    /\ UNCHANGED <<analysisVars, builderVars, internalMap, userMap, excludeBuiltin, loaded>>

\* a call of IncludeCall
CallIncludeCall ==
    /\ loaderState \in {"init", "loaded"}
    /\ \E x \in Classifiers, call \in CallUniverse :
         answer' = [ op |-> "IncludeCall", which |-> x.which, caller |-> call[1],
                     callee |-> call[2], result |-> IncludeCall(x.c, call[1], call[2]) ]
    /\ loaderState' = "asked"
    /\ UNCHANGED <<analysisVars, builderVars, internalMap, userMap, excludeBuiltin, loaded>>

NextClassifier ==
    \/ CallLoadClassifier
    \/ CallFunctionCategory
    \/ CallFunctionCategoryExcludingUnanalyzed
    \/ CallIncludeCall

SpecClassifier == InitClassifier /\ [][NextClassifier]_vars

(***************************************************************************)
(* Properties of the classifier.  A property speaks of the call recorded   *)
(* in answer, of the classifier it was made on, and of the lines of the    *)
(* map given to LoadClassifier.                                            *)
(***************************************************************************)
AskedFunctionCategory == loaderState = "asked" /\ answer.op = "FunctionCategory"

AskedIncludeCall == loaderState = "asked" /\ answer.op = "IncludeCall"

\* the classifier the recorded call was made on
Asked == IF answer.which = "default" THEN DefaultClassifier ELSE loaded.classifier[1]

\* the recorded call was made on a user map merged over the built-in one
AskedMerged == loaderState = "asked" /\ answer.which = "loaded" /\ ~excludeBuiltin

CgoMatch(c, name) == \E s \in Range(c.cgoSuffixes) : HasSuffix(name, s)

\* C7: FunctionCategory(pkg, name) is CGO when a cgo suffix is a suffix of
\* name; otherwise the function-level entry of name when there is one, be it
\* Unspecified; otherwise UNANALYZED when name has an unanalyzed entry;
\* otherwise the package-level entry of pkg; otherwise Unspecified.
FunctionCategoryPrecedence ==
    AskedFunctionCategory =>
      LET c      == Asked
          name   == answer.name
          isCgo  == CgoMatch(c, name)
          isFunc == name \in DOMAIN c.functionCategory
          isUn   == name \in DOMAIN c.unanalyzedCategory
          isPkg  == answer.pkg \in DOMAIN c.packageCategory
      IN  /\ isCgo => answer.result = W("CGO")
          /\ ~isCgo /\ isFunc => answer.result = c.functionCategory[name]
          /\ ~isCgo /\ ~isFunc /\ isUn => answer.result = W("UNANALYZED")
          /\ ~isCgo /\ ~isFunc /\ ~isUn /\ isPkg
               => answer.result = c.packageCategory[answer.pkg]
          /\ ~isCgo /\ ~isFunc /\ ~isUn /\ ~isPkg => answer.result = << >>

\* a function-level entry with the value Unspecified hides the entry of the
\* function's package
UnspecifiedFunctionEntryHidesPackage ==
    /\ AskedFunctionCategory
    /\ answer.name \in DOMAIN Asked.functionCategory
    /\ Asked.functionCategory[answer.name] = << >>
    /\ answer.pkg \in DOMAIN Asked.packageCategory
    /\ Asked.packageCategory[answer.pkg] # << >>
    /\ ~CgoMatch(Asked, answer.name)
    /\ answer.result = << >>

\* C8, as stated: on any classifier, IncludeCall(caller, callee) is false if
\* and only if the pair is in the ignoredEdges of that classifier.
IncludeCallReadsOwnIgnoredEdges ==
    AskedIncludeCall =>
      (answer.result = FALSE <=> <<answer.caller, answer.callee>> \in Asked.ignoredEdges)

\* the parsed user map of a successful LoadClassifier
UserClassifier == parseCapabilityMap(SourceName, userMap).classifier[1]

Loaded == DOMAIN loaded # {}

\* the arguments a keyword requires, the keyword included; 0 for a word that
\* is no keyword
ArgumentsRequired(keyword) ==
    CASE keyword \in { W("func"), W("package"), W("ignore_edge") } -> 3
      [] keyword \in { W("unanalyzed"), W("cgo_suffix") } -> 2
      [] OTHER -> 0

\* the key a line gives under its keyword; a cgo_suffix line gives none
KeyOf(args) ==
    CASE args[1] \in { W("func"), W("package"), W("unanalyzed") } -> << args[1], args[2] >>
      [] args[1] = W("ignore_edge") -> << args[1], args[2], args[3] >>
      [] OTHER -> << >>

HasKey(args) ==
    /\ args # << >>
    /\ ArgumentsRequired(args[1]) > 0
    /\ Len(args) >= ArgumentsRequired(args[1])
    /\ KeyOf(args) # << >>

\* a capability written as a name of the enumeration, short or prefixed
KnownCapability(c) == c \in Capability_value \/ \E i \in DOMAIN CapabilityNames : c = W(CapabilityNames[i])

\* line i of r is not blank and not a comment, and has too few arguments,
\* an unknown keyword, a key of an earlier line with the same keyword, or a
\* capability Unknown rejects
Offending(r, i, Unknown(_)) ==
    LET args == fieldsBeforeComment(r[i])
    IN  /\ args # << >>
        /\ \/ ArgumentsRequired(args[1]) = 0
           \/ Len(args) < ArgumentsRequired(args[1])
           \/ /\ HasKey(args)
              /\ \E j \in 1 .. i - 1 :
                   LET earlier == fieldsBeforeComment(r[j])
                   IN  HasKey(earlier) /\ KeyOf(earlier) = KeyOf(args)
           \/ /\ args[1] \in { W("func"), W("package") }
              /\ Len(args) >= 3
              /\ Unknown(args[3])

\* parsing r fails exactly when a line offends, with no classifier and an
\* error at source:line of the first such line
FailsAtFirstOffending(r, result, Unknown(_)) ==
    LET off == { i \in DOMAIN r : Offending(r, i, Unknown) }
    IN  IF off = {}
        THEN result.err = << >> /\ result.classifier # << >>
        ELSE /\ result.classifier = << >>
             /\ Len(result.err) = 1
             /\ result.err[1].source = SourceName
             /\ result.err[1].line = CHOOSE i \in off : \A j \in off : i <= j

NotOfTheEnumeration(c) == ~KnownCapability(c)

PrefixedNotOfTheEnumeration(c) == HasPrefix(c, W("CAPABILITY_")) /\ c \notin Capability_value

KeyFor(keyword) == IF keyword = W("func") THEN W("os.Open") ELSE W("os")

\* FunctionCategory on the result of LoadClassifier, when there is one
CategoryIfLoaded(l, pkg, name) ==
    IF l.err # << >> THEN << >> ELSE << FunctionCategory(l.classifier[1], pkg, name) >>

\* LoadClassifier on a one-line map with capability X written in its short
\* form and on the same map with X written in its CAPABILITY_ form, then
\* FunctionCategory on both results
CallBothForms ==
    /\ loaderState = "init"
    /\ \E i \in DOMAIN CapabilityNames, keyword \in { W("func"), W("package") },
          exclude \in BOOLEAN, pkg \in PackageUniverse, name \in NameUniverse :
         LET short  == << << keyword, KeyFor(keyword), W(CapabilityNames[i]) >> >>
             legacy == << << keyword, KeyFor(keyword), <<"CAPABILITY_", CapabilityNames[i]>> >> >>
             ls     == LoadClassifier(SourceName, short, exclude)
             ll     == LoadClassifier(SourceName, legacy, exclude)
         IN  answer' = [ op |-> "BothForms", X |-> CapabilityNames[i],
                         keyword |-> keyword, exclude |-> exclude,
                         pkg |-> pkg, name |-> name,
                         short |-> ls, legacy |-> ll,
                         shortResult |-> CategoryIfLoaded(ls, pkg, name),
                         legacyResult |-> CategoryIfLoaded(ll, pkg, name) ]
    /\ loaderState' = "asked"
    /\ UNCHANGED <<analysisVars, builderVars, internalMap, userMap, excludeBuiltin, loaded>>

AskedBothForms == loaderState = "asked" /\ answer.op = "BothForms"

\* the table a line with the keyword fills
TableFor(c, keyword) ==
    IF keyword = W("func") THEN c.functionCategory ELSE c.packageCategory

\* C11, as stated: for every capability X of the enumeration a func or
\* package line with X and the same line with CAPABILITY_X both parse and
\* give classifiers with the same FunctionCategory results, and for X =
\* UNSPECIFIED both give the key the category Unspecified.
BothFormsDenoteTheSame ==
    AskedBothForms =>
      /\ answer.short.err = << >>
      /\ answer.legacy.err = << >>
      /\ answer.shortResult = answer.legacyResult
      /\ answer.X = "UNSPECIFIED" =>
           /\ TableFor(answer.short.classifier[1], answer.keyword)[KeyFor(answer.keyword)] = << >>
           /\ TableFor(answer.legacy.classifier[1], answer.keyword)[KeyFor(answer.keyword)] = << >>

\* C11, for the capabilities other than UNSPECIFIED: both forms parse and
\* give the key the category X, hence the same FunctionCategory results;
\* CAPABILITY_UNSPECIFIED parses and gives the key the category Unspecified.
BothFormsDenoteTheSameButUnspecified ==
    AskedBothForms =>
      /\ answer.short.err = << >>
      /\ answer.legacy.err = << >>
      /\ answer.X # "UNSPECIFIED" =>
           /\ answer.shortResult = answer.legacyResult
           /\ TableFor(answer.short.classifier[1], answer.keyword)[KeyFor(answer.keyword)]
                = W(answer.X)
           /\ TableFor(answer.legacy.classifier[1], answer.keyword)[KeyFor(answer.keyword)]
                = W(answer.X)
      /\ answer.X = "UNSPECIFIED" =>
           TableFor(answer.legacy.classifier[1], answer.keyword)[KeyFor(answer.keyword)] = << >>

\* both forms of NETWORK replace the built-in category FILES of os.Open
BothFormsOverrideBuiltin ==
    /\ AskedBothForms
    /\ answer.X = "NETWORK"
    /\ ~answer.exclude
    /\ answer.keyword = W("func")
    /\ answer.name = W("os.Open")
    /\ answer.shortResult = << W("NETWORK") >>
    /\ answer.legacyResult = << W("NETWORK") >>

AskedExcludingUnanalyzed ==
    loaderState = "asked" /\ answer.op = "FunctionCategoryExcludingUnanalyzed"

\* C12, as stated: the classifier made by ClassifierExcludingUnanalyzed
\* from any classifier c, and the one of GetClassifier(true), never returns
\* UNANALYZED from FunctionCategory, and returns what c returns wherever c
\* does not return UNANALYZED.
ExcludingUnanalyzedNeverUnanalyzed ==
    AskedExcludingUnanalyzed =>
      /\ answer.result # W("UNANALYZED")
      /\ answer.original # W("UNANALYZED") => answer.result = answer.original

\* C12, for what the copy does: it returns what c returns wherever c does
\* not return UNANALYZED, and it returns UNANALYZED only where a func or
\* package entry of c has that category.
ExcludingUnanalyzedDropsUnanalyzedEntries ==
    AskedExcludingUnanalyzed =>
      /\ answer.original # W("UNANALYZED") => answer.result = answer.original
      /\ answer.result = W("UNANALYZED") =>
           \/ /\ answer.name \in DOMAIN Asked.functionCategory
              /\ Asked.functionCategory[answer.name] = W("UNANALYZED")
           \/ /\ answer.pkg \in DOMAIN Asked.packageCategory
              /\ Asked.packageCategory[answer.pkg] = W("UNANALYZED")

\* a function with an unanalyzed entry gets the category of its package
UnanalyzedEntryFallsToPackage ==
    /\ AskedExcludingUnanalyzed
    /\ answer.original = W("UNANALYZED")
    /\ answer.name \in DOMAIN Asked.unanalyzedCategory
    /\ answer.result = W("RUNTIME")

(***************************************************************************)
(* Properties of the capabilities the scanner derives.                     *)
(***************************************************************************)
ExtraCapabilities ==
    { "CAPABILITY_UNSAFE_POINTER", "CAPABILITY_REFLECT", "CAPABILITY_ARBITRARY_EXECUTION" }

\* mergeCapabilities has run
Merged == pc \in {"search", "done"}

\* the scanner's capability c is attached to n: n is among the nodes of c
\* and c is not the category the classifier gives n
Attached(n, c) ==
    n \in nodesOf(nodesByCapability, c) /\ nodeCategory(classifier, n) # c

\* there is a finding for function u and capability c
Reported(u, c) == \E f \in Findings : f.Function = u /\ f.Capability = c

GraphDone == pc = "graph"

\* one more included call in front of the nodes of R, from a caller that is
\* not Safe
CallersOf(R) ==
    R \cup { u \in Node :
               ~IsSafe(u) /\ \E e \in graph : e.Caller = u /\ Included(e) /\ e.Callee \in R }

RECURSIVE CallersClosure(_)
CallersClosure(R) ==
    UNION { IF B = R THEN R ELSE CallersClosure(B) : B \in { CallersOf(R) } }

\* the nodes that can reach a capability
CanReachCapability ==
    CallersClosure({ n \in Node : ~IsSafe(n) /\ \E c \in Range(CapabilityEnum) : Labelled(n, c) })

\* one more call behind the nodes of R that are not explicitly categorized,
\* to a node of T, over the calls of E
CalleesOf(R, T, E) ==
    R \cup { w \in T : \E e \in E : e.Callee = w /\ e.Caller \in R /\ ~IsExplicit(e.Caller) }

RECURSIVE CalleesClosure(_, _, _)
CalleesClosure(R, T, E) ==
    UNION { IF B = R THEN R ELSE CalleesClosure(B, T, E) : B \in { CalleesOf(R, T, E) } }

\* the queried functions that can reach a capability, and the nodes reached
\* from them over calls of E between nodes that can reach a capability
ShownOver(T, E) == CalleesClosure({ u \in T : InQueriedPackage(u) }, T, E)

\* each call and each incidence is reported once
ReportedOnce ==
    /\ \A call \in BagToSet(graphCalls) : CopiesIn(call, graphCalls) = 1
    /\ \A inc \in BagToSet(graphCaps) : CopiesIn(inc, graphCaps) = 1

\* C14, as stated: CapabilityGraph reports a call (u, w) only if the
\* classifier includes the call from u to w, u is not explicitly
\* categorized, u is a queried function that can reach a capability or was
\* reached by reported calls from one, and w can reach a capability; each
\* call and each incidence is reported at most once.
GraphCallsAreIncluded ==
    GraphDone =>
      /\ ReportedOnce
      /\ \A T \in { CanReachCapability } :
           \A Shown \in { ShownOver(T, { e \in graph : Included(e) }) } :
             \A call \in BagToSet(graphCalls) :
               /\ \E e \in graph : e.Caller = call[1] /\ e.Callee = call[2] /\ Included(e)
               /\ ~IsExplicit(call[1])
               /\ call[1] \in Shown
               /\ call[2] \in T

\* C14, without the condition on the call itself: the reported calls are
\* exactly the calls (u, w) of the graph, ignored or not, with u not
\* explicitly categorized, u a queried function that can reach a capability
\* or reached by reported calls from one, and w able to reach a capability;
\* each call and each incidence is reported once.
GraphCallsBetweenReachingNodes ==
    GraphDone =>
      /\ ReportedOnce
      /\ \A T \in { CanReachCapability } :
           \A Shown \in { ShownOver(T, graph) } :
             /\ BagToSet(graphCalls) =
                  { <<e.Caller, e.Callee>> : e \in
                      { x \in graph : /\ x.Caller \in Shown /\ ~IsExplicit(x.Caller)
                                      /\ x.Callee \in T } }
             /\ BagToSet(graphCaps) =
                  { <<v, c>> \in Shown \X Range(CapabilityEnum) : Labelled(v, c) }

\* a call the classifier ignores is reported next to the path around it
IgnoredCallReported ==
    /\ GraphDone
    /\ \E e1, e2, e3 \in graph :
         /\ ~Included(e1)
         /\ e2.Caller = e1.Caller /\ e2.Callee = e3.Caller /\ e3.Callee = e1.Callee
         /\ Included(e2) /\ Included(e3)
         /\ { <<e1.Caller, e1.Callee>>, <<e2.Caller, e2.Callee>>, <<e3.Caller, e3.Callee>> }
              \subseteq BagToSet(graphCalls)


(***************************************************************************)
(* Part III.  The graph output (graphBuilder).                             *)
(*                                                                         *)
(* What is written is a sequence of pieces: a piece is a run of ordinary   *)
(* characters, or one of the characters the code treats specially: the     *)
(* double quote, the backslash and the line end.  The repository holds two *)
(* versions of the builder: the one of analyzer/graph.go, which has a      *)
(* field started and writes the header at the first Edge, and a later one, *)
(* which has no such field and writes the header in newGraphBuilder.       *)
(***************************************************************************)
NL == "\n"
QUOTE == "\""
BACKSLASH == "\\"

\* strings.ReplaceAll(s, old, new) where old is one piece
RECURSIVE ReplaceAll(_, _, _)
ReplaceAll(s, old, new) ==
    IF s = << >> THEN << >>
    ELSE (IF Head(s) = old THEN new ELSE <<Head(s)>>) \o ReplaceAll(Tail(s), old, new)

\* gb.Write(b)
Write(b, p) == [b EXCEPT !.w = @ \o p]

\* newGraphBuilder of analyzer/graph.go: nothing is written
newGraphBuilderLazy == [started |-> FALSE, done |-> FALSE, panicked |-> FALSE, w |-> << >>]

\* newGraphBuilder of the later version: the header is written
newGraphBuilderEager == Write([done |-> FALSE, panicked |-> FALSE, w |-> << >>], <<"digraph {", NL>>)

hasStarted(b) == "started" \in DOMAIN b

\* the writes of one edge, the same in both versions
writeEdge(b, from, to) ==
    Write(Write(Write(Write(Write(Write(b,
        <<"\t">>),
        <<QUOTE>>),
        ReplaceAll(from, QUOTE, <<BACKSLASH, QUOTE>>)),
        <<QUOTE, " -> ", QUOTE>>),
        ReplaceAll(to, QUOTE, <<BACKSLASH, QUOTE>>)),
        <<QUOTE, NL>>)

\* (*graphBuilder).Edge
graphBuilderEdge(b, from, to) ==
    IF b.done THEN [b EXCEPT !.panicked = TRUE]
    ELSE IF hasStarted(b) /\ ~b.started
         THEN writeEdge([Write(b, <<"digraph {", NL>>) EXCEPT !.started = TRUE], from, to)
         ELSE writeEdge(b, from, to)

\* (*graphBuilder).Done
graphBuilderDone(b) ==
    IF b.done THEN [b EXCEPT !.panicked = TRUE]
    ELSE [Write(b, <<"}", NL>>) EXCEPT !.done = TRUE]

\* the number of Edge calls made on one builder
MaxCalls == 2

\* what nodeNamer returns: names of functions and of capabilities, one of
\* them with double quotes in it
NodeNames ==
    { <<"a.F">>,
      <<"CAPABILITY_FILES">>,
      <<"a.G[", QUOTE, "x", QUOTE, "]">> }

InitBuilder ==
    /\ InitIdle
    /\ gb \in {newGraphBuilderLazy, newGraphBuilderEager}
    /\ edgeCalls = << >>

\* a call of Edge
CallEdge ==
    /\ Len(edgeCalls) < MaxCalls
    /\ ~gb.panicked
    /\ \E from \in NodeNames, to \in NodeNames :
         /\ gb' = graphBuilderEdge(gb, from, to)
         /\ edgeCalls' = Append(edgeCalls, <<from, to>>)
    /\ UNCHANGED <<analysisVars, loaderVars>>

\* a call of Done
CallDone ==
    /\ ~gb.panicked
    /\ gb' = graphBuilderDone(gb)
    /\ UNCHANGED <<analysisVars, loaderVars, edgeCalls>>

NextBuilder ==
    \/ CallEdge
    \/ CallDone

SpecBuilder == InitBuilder /\ [][NextBuilder]_vars


(***************************************************************************)
(* C15: the framing of the graph output.                                   *)
(***************************************************************************)
\* the lines of what was written, each without its line end
RECURSIVE Lines(_)
Lines(w) ==
    IF w = << >> THEN << >>
    ELSE LET n == CHOOSE i \in 1..(Len(w) + 1) :
                      /\ i = Len(w) + 1 \/ w[i] = NL
                      /\ \A j \in 1..(i - 1) : w[j] # NL
         IN  <<SubSeq(w, 1, n - 1)>> \o Lines(SubSeq(w, n + 1, Len(w)))

Unescaped(line) == SelectSeq(line, LAMBDA p : p # BACKSLASH)

\* the line of one call of Edge, with the escapes taken out
EdgeLineOf(call) == <<"\t", QUOTE>> \o call[1] \o <<QUOTE, " -> ", QUOTE>> \o call[2] \o <<QUOTE>>

Finished == gb.done /\ ~gb.panicked

Framed ==
    LET ls == Lines(gb.w)
    IN  /\ Len(ls) = Len(edgeCalls) + 2
        /\ ls[1] = <<"digraph {">>
        /\ ls[Len(ls)] = <<"}">>
        /\ \A i \in 1..Len(edgeCalls) : Unescaped(ls[i + 1]) = EdgeLineOf(edgeCalls[i])
        /\ Cardinality({i \in 1..Len(ls) : ls[i] = <<"digraph {">>}) = 1
        /\ Cardinality({i \in 1..Len(ls) : ls[i] = <<"}">>}) = 1

\* C15 as stated: after any sequence of Edge calls, the empty one included,
\* followed by Done, the output is the line `digraph {` once at the start,
\* one line per Edge call, and the line `}` once at the end.
GraphOutputFramed == Finished => Framed

\* C15, what the code guarantees: the output is framed when the header was
\* written, that is in the version that writes it in newGraphBuilder and, in
\* the version with the field started, after at least one Edge call; with
\* the field started and no Edge call the output is the single line `}`.
GraphOutputFramedOnceStarted ==
    /\ (Finished /\ (hasStarted(gb) => gb.started)) => Framed
    /\ (Finished /\ hasStarted(gb) /\ ~gb.started) =>
           /\ edgeCalls = << >>
           /\ Lines(gb.w) = << <<"}">> >>

\* C15 witness: the lazy builder finished after two Edge calls, one of them
\* with a name that holds double quotes.
TwoEdgesThenDone ==
    /\ Finished
    /\ hasStarted(gb)
    /\ Len(edgeCalls) = 2
    /\ \E i \in 1..2 : \E p \in 1..Len(edgeCalls[i][1]) : edgeCalls[i][1][p] = QUOTE


(***************************************************************************)
(* Part IV.  Capability lists (parseCapabilitiesList, NewCapabilitySet).   *)
(*                                                                         *)
(* A list is a sequence of pieces: the comma, the minus sign, the prefix   *)
(* CAPABILITY_ and runs of other characters.                               *)
(***************************************************************************)
COMMA == ","
MINUS == "-"

\* strings.Split(cs, ","): the pieces between the commas; never empty
RECURSIVE Split(_)
Split(cs) ==
    IF \A i \in 1..Len(cs) : cs[i] # COMMA THEN <<cs>>
    ELSE LET n == CHOOSE i \in 1..Len(cs) :
                      /\ cs[i] = COMMA
                      /\ \A j \in 1..(i - 1) : cs[j] # COMMA
         IN  <<SubSeq(cs, 1, n - 1)>> \o Split(SubSeq(cs, n + 1, Len(cs)))

\* the loop of both functions from element i on, which never checks that the
\* elements agree on the minus sign
RECURSIVE parseElementsUnchecked(_, _, _, _)
parseElementsUnchecked(elems, i, out, negated) ==
    IF i > Len(elems) THEN [capabilities |-> out, negated |-> negated, err |-> "nil"]
    ELSE IF Len(elems[i]) = 0 THEN [capabilities |-> {}, negated |-> FALSE, err |-> "empty capability in list"]
    ELSE LET neg == Head(elems[i]) = MINUS
             s   == IF neg THEN Tail(elems[i]) ELSE elems[i]
         IN  IF s \in Capability_value
             THEN parseElementsUnchecked(elems, i + 1, out \cup {s}, neg)
             ELSE IF <<"CAPABILITY_">> \o s \in Capability_value
             THEN parseElementsUnchecked(elems, i + 1, out \cup {<<"CAPABILITY_">> \o s}, neg)
             ELSE [capabilities |-> {}, negated |-> FALSE, err |-> "unknown capability"]

\* the loop of both functions from element i on: for i, s := range strings.Split(cs, ",")
RECURSIVE parseElements(_, _, _, _)
parseElements(elems, i, out, negated) ==
    IF i > Len(elems) THEN [capabilities |-> out, negated |-> negated, err |-> "nil"]
    ELSE IF Len(elems[i]) = 0 THEN [capabilities |-> {}, negated |-> FALSE, err |-> "empty capability in list"]
    ELSE LET neg == Head(elems[i]) = MINUS
             s   == IF neg THEN Tail(elems[i]) ELSE elems[i]
         IN  IF i > 1 /\ neg # negated
             THEN [capabilities |-> {}, negated |-> FALSE, err |-> "mix of negated and unnegated capabilities specified"]
             ELSE IF s \in Capability_value
             THEN parseElements(elems, i + 1, out \cup {s}, neg)
             ELSE IF <<"CAPABILITY_">> \o s \in Capability_value
             THEN parseElements(elems, i + 1, out \cup {<<"CAPABILITY_">> \o s}, neg)
             ELSE [capabilities |-> {}, negated |-> FALSE, err |-> "unknown capability"]

\* parseCapabilitiesList of analyzer/graph.go; the named result negated
\* starts FALSE, and the empty list returns nil, true, nil
parseCapabilitiesList(cs) ==
    IF Len(cs) = 0 THEN [capabilities |-> {}, negated |-> TRUE, err |-> "nil"]
    ELSE parseElements(Split(cs), 1, {}, FALSE)

\* a *CapabilitySet: nil, or a pointer to a set
NilCapabilitySet == [isNil |-> TRUE]

\* NewCapabilitySet: the pair of a *CapabilitySet and an error
NewCapabilitySet(cs) ==
    IF Len(cs) = 0 THEN [set |-> NilCapabilitySet, err |-> "nil"]
    ELSE LET r == parseElements(Split(cs), 1, {}, FALSE)
         IN  IF r.err # "nil" THEN [set |-> NilCapabilitySet, err |-> r.err]
             ELSE [set |-> [isNil |-> FALSE, capabilities |-> r.capabilities, negated |-> r.negated],
                   err |-> "nil"]

\* Has without the negation
HasListed(cs, c) ==
    IF cs.isNil THEN TRUE
    ELSE c \in cs.capabilities

\* (*CapabilitySet).Has
Has(cs, c) ==
    IF cs.isNil THEN TRUE
    ELSE (c \in cs.capabilities) # cs.negated

\* the pieces of the lists tried and the longest list
ListPieces == {COMMA, MINUS, "CAPABILITY_", "FILES", "NETWORK", "BOGUS"}
MaxPieces == 5

RECURSIVE SeqsUpTo(_, _)
SeqsUpTo(S, n) ==
    IF n = 0 THEN { << >> }
    ELSE LET shorter == SeqsUpTo(S, n - 1)
         IN  shorter \cup { Append(s, x) : s \in {t \in shorter : Len(t) = n - 1}, x \in S }

CapabilityLists == SeqsUpTo(ListPieces, MaxPieces)

\* a call of parseCapabilitiesList
CallParseCapabilitiesList ==
    /\ loaderState = "init"
    /\ \E cs \in CapabilityLists :
         answer' = [op |-> "parseCapabilitiesList", cs |-> cs, result |-> parseCapabilitiesList(cs)]
    /\ loaderState' = "asked"
    /\ UNCHANGED <<analysisVars, builderVars, internalMap, userMap, excludeBuiltin, loaded>>

\* a call of NewCapabilitySet
CallNewCapabilitySet ==
    /\ loaderState = "init"
    /\ \E cs \in CapabilityLists :
         answer' = [op |-> "NewCapabilitySet", cs |-> cs, result |-> NewCapabilitySet(cs)]
    /\ loaderState' = "asked"
    /\ UNCHANGED <<analysisVars, builderVars, internalMap, userMap, excludeBuiltin, loaded>>


(***************************************************************************)
(* C16: which capability lists are rejected, and what an accepted one      *)
(* denotes.                                                                *)
(***************************************************************************)
AskedParse == loaderState = "asked" /\ answer.op = "parseCapabilitiesList"
AskedNew == loaderState = "asked" /\ answer.op = "NewCapabilitySet"

\* the elements of a non-empty list
ElementsOf(cs) == LET e == Split(cs) IN { e[i] : i \in DOMAIN e }

Negated(e) == e # << >> /\ e[1] = MINUS
WithoutMinus(e) == IF Negated(e) THEN Tail(e) ELSE e

ShortName(n) == \E i \in DOMAIN CapabilityNames : n = <<CapabilityNames[i]>>
PrefixedName(n) == \E i \in DOMAIN CapabilityNames : n = <<"CAPABILITY_", CapabilityNames[i]>>

\* the capability an element names
Denoted(e) ==
    IF PrefixedName(WithoutMinus(e)) THEN WithoutMinus(e) ELSE <<"CAPABILITY_">> \o WithoutMinus(e)

Rejected(cs) ==
    /\ cs # << >>
    /\ \/ \E e \in ElementsOf(cs) : e = << >>
       \/ \E e \in ElementsOf(cs) : ~ShortName(WithoutMinus(e)) /\ ~PrefixedName(WithoutMinus(e))
       \/ \E e, f \in ElementsOf(cs) : Negated(e) # Negated(f)

Listed(cs) == IF cs = << >> THEN {} ELSE { Denoted(e) : e \in ElementsOf(cs) }
AllNegated(cs) == cs = << >> \/ \A e \in ElementsOf(cs) : Negated(e)

\* C16: parsing fails if and only if the list is not empty and holds an
\* empty element, an element that is no capability name (short or with the
\* prefix CAPABILITY_) once at most one leading minus sign is removed, or
\* both negated and un-negated elements; the empty list is accepted and
\* denotes every capability; an accepted list yields exactly the listed
\* capabilities, negated if and only if every element has the minus sign.
CapabilityListParsed ==
    /\ AskedParse =>
         /\ (answer.result.err # "nil") <=> Rejected(answer.cs)
         /\ answer.result.err = "nil" =>
              /\ answer.result.capabilities = Listed(answer.cs)
              /\ answer.result.negated <=> AllNegated(answer.cs)
         \* graphOutput builds no filter from an empty result
         /\ answer.cs = << >> => answer.result.capabilities = {}
    /\ AskedNew =>
         /\ (answer.result.err # "nil") <=> Rejected(answer.cs)
         /\ answer.cs = << >> => answer.result.set.isNil
         /\ (answer.result.err = "nil" /\ answer.cs # << >>) =>
              /\ ~answer.result.set.isNil
              /\ answer.result.set.capabilities = Listed(answer.cs)
              /\ answer.result.set.negated <=> AllNegated(answer.cs)
         /\ answer.result.err = "nil" =>
              \A c \in Capability_value :
                  Has(answer.result.set, c) <=>
                      (IF answer.cs = << >> THEN TRUE
                       ELSE (c \in Listed(answer.cs)) # AllNegated(answer.cs))

\* C16 witness: the list -FILES,-NETWORK is accepted as the negated set of
\* FILES and NETWORK.
NegatedListAccepted ==
    /\ AskedNew
    /\ answer.cs = <<MINUS, "FILES", COMMA, MINUS, "NETWORK">>
    /\ answer.result.err = "nil"
    /\ ~answer.result.set.isNil
    /\ answer.result.set.negated
    /\ answer.result.set.capabilities = {<<"CAPABILITY_", "FILES">>, <<"CAPABILITY_", "NETWORK">>}


(***************************************************************************)
(* Part V.  The granularity and filter layer of GetCapabilityInfo          *)
(* (Config.Granularity, Config.CapabilitySet).                             *)
(*                                                                         *)
(* The capabilities that are not in the set are not searched for.  At      *)
(* package granularity a finding is kept when no earlier one has its       *)
(* package and capability.  At intermediate granularity the backward       *)
(* search of a capability is followed by a forward search from the queried *)
(* functions it has reached, and the first function met of each package    *)
(* gives the finding of that package.                                      *)
(***************************************************************************)
GranularityFunction == "function"
GranularityPackage == "package"
GranularityIntermediate == "intermediate"
Granularities == {GranularityFunction, GranularityPackage, GranularityIntermediate}

\* the sets tried: every capability, FILES alone, all but FILES, and
\* UNSAFE_POINTER alone
CapabilitySets ==
    { NilCapabilitySet,
      [isNil |-> FALSE, capabilities |-> {"CAPABILITY_FILES"}, negated |-> FALSE],
      [isNil |-> FALSE, capabilities |-> {"CAPABILITY_FILES"}, negated |-> TRUE],
      [isNil |-> FALSE, capabilities |-> {"CAPABILITY_UNSAFE_POINTER"}, negated |-> FALSE] }

\* the findings of s that no earlier finding of the same package and
\* capability precedes
RECURSIVE packageFindings(_, _)
packageFindings(s, seen) ==
    IF s = <<>> THEN <<>>
    ELSE LET k == <<Head(s).PackageDir, Head(s).Capability>>
         IN  IF k \in seen THEN packageFindings(Tail(s), seen)
             ELSE <<Head(s)>> \o packageFindings(Tail(s), seen \cup {k})

\* the backward search of forEachPath for capability c, run to its end
RECURSIVE searchBackwardsFor(_, _, _, _, _, _, _)
searchBackwardsFor(g, cl, c, safeNodes, explicit, nodes, queue) ==
    IF queue = <<>> THEN nodes
    ELSE LET edges == CHOOSE s \in sortByCaller(includedIncoming(g, cl, Head(queue))) : TRUE
             st == visitEdges([visited |-> nodes, q |-> Tail(queue), caps |-> <<>>],
                              edges, c, safeNodes, explicit, {})
         IN  searchBackwardsFor(g, cl, c, safeNodes, explicit, st.visited, st.q)

\* the forward search from the queried functions among the nodes the
\* backward search reached: from[w] is the edge w was reached by, order the
\* nodes in the order they were reached
RECURSIVE searchForwardsFor(_, _, _, _, _, _, _)
searchForwardsFor(g, cl, explicit, reached, from, order, queue) ==
    IF queue = <<>> THEN [from |-> from, order |-> order]
    ELSE LET v == Head(queue)
         IN  IF v \in explicit
             THEN searchForwardsFor(g, cl, explicit, reached, from, order, Tail(queue))
             ELSE LET out == { e \in g : /\ e.Caller = v
                                         /\ IncludeCallOf(cl, FuncString(v), FuncString(e.Callee))
                                         /\ e.Callee \in reached
                                         /\ e.Callee \notin DOMAIN from }
                      new == CHOOSE s \in sortByFunction({ e.Callee : e \in out }) : TRUE
                      from1 == [ w \in DOMAIN from \cup Range(new) |->
                                   IF w \in DOMAIN from THEN from[w]
                                   ELSE CHOOSE e \in out : e.Callee = w ]
                  IN  searchForwardsFor(g, cl, explicit, reached, from1,
                                        order \o new, Tail(queue) \o new)

\* the edges from a queried function to w, in the order of the calls
RECURSIVE edgesTo(_, _)
edgesTo(from, w) ==
    IF from[w] = NoEdge THEN <<>> ELSE Append(edgesTo(from, from[w].Caller), from[w])

\* the edges from w to a function with the capability
RECURSIVE edgesFrom(_, _)
edgesFrom(nodes, w) ==
    IF nodes[w] = NoEdge THEN <<>> ELSE <<nodes[w]>> \o edgesFrom(nodes, nodes[w].Callee)

\* the finding of package n for capability c with the path through w
intermediateInfo(c, nodes, from, w) ==
    LET es == edgesTo(from, w) \o edgesFrom(nodes, w)
        ns == [ i \in 1..(Len(es) + 1) |-> IF i = 1 THEN (IF es = <<>> THEN w ELSE es[1].Caller)
                                           ELSE es[i - 1].Callee ]
        n  == Funcs[w].Package
    IN  [ Capability |-> c,
          Function |-> ns[1],
          PackageDir |-> n,
          CapabilityType |-> capabilityType(n, ns),
          Path |-> [ i \in DOMAIN ns |->
                       [ Name |-> FuncString(ns[i]),
                         Site |-> functionSite(IF i = 1 THEN NoEdge ELSE es[i - 1]) ] ],
          DepPath |-> [ i \in DOMAIN ns |-> FuncString(ns[i]) ] ]

\* one finding for each package met, in the order its first function was met
RECURSIVE intermediateFindings(_, _, _, _, _)
intermediateFindings(c, nodes, from, order, seen) ==
    IF order = <<>> THEN <<>>
    ELSE LET w == Head(order)
             n == Funcs[w].Package
         IN  IF n = NoPackage \/ n \in seen
             THEN intermediateFindings(c, nodes, from, Tail(order), seen)
             ELSE <<intermediateInfo(c, nodes, from, w)>>
                  \o intermediateFindings(c, nodes, from, Tail(order), seen \cup {n})

\* the findings at intermediate granularity for the capabilities todo
RECURSIVE intermediatePackages(_, _, _, _, _, _, _)
intermediatePackages(g, cl, nc, safeNodes, explicit, queried, todo) ==
    IF todo = <<>> THEN <<>>
    ELSE LET c == Head(todo)
             start == CHOOSE s \in sortByFunction(roots(nc, safeNodes, c)) : TRUE
             nodes == searchBackwardsFor(g, cl, c, safeNodes, explicit,
                                         [ v \in Range(start) |-> NoEdge ], start)
             first == CHOOSE s \in sortByFunction({ v \in DOMAIN nodes : isQueried(v, queried) }) : TRUE
             fw == searchForwardsFor(g, cl, explicit, DOMAIN nodes,
                                     [ v \in Range(first) |-> NoEdge ], first, first)
         IN  intermediateFindings(c, nodes, fw.from, fw.order, {})
             \o intermediatePackages(g, cl, nc, safeNodes, explicit, queried, Tail(todo))


\* the call graphs and the programs of the runs with a configuration
ReportEdges == { e \in EdgeUniverse : e.id \in {1, 2, 3, 4, 5, 7, 8} }
ReportGraphs == { S \in SUBSET ReportEdges : Cardinality(S) <= MaxEdges }

ReportLabellings ==
    { l \in Labellings :
        /\ l[2] \in {Plain, Flagged}
        /\ l[3] \in {Plain, Files, Safe}
        /\ l[4] \in {Files, Flagged} }

InitReport == InitWith(ReportGraphs, ReportLabellings)

\* the start of GetCapabilityInfo with a configuration: the first run is made
\* with every capability, the second with any set
StartConfigured ==
    /\ pc = "idle"
    /\ \E g \in Granularities, cs \in CapabilitySets :
         /\ previous = <<>> => cs = NilCapabilitySet
         /\ config' = [ Granularity |-> g, CapabilitySet |-> cs,
                        First |-> IF previous = <<>> THEN g ELSE config.Granularity ]
         /\ LET nc == getNodeCapabilities(classifier)
                extra == getExtraNodesByCapability(allFunctions, unsafePointerFunctions)
                merged == mergeCapabilities(nc, extra)
            IN  /\ safe' = getSafe(classifier)
                /\ nodesByCapability' = merged
                /\ allNodesWithExplicitCapability' = explicitNodes(nc)
                /\ capsTodo' \in sortCapabilities({ c \in DOMAIN merged : Has(cs, c) })
    /\ pc' = "search"
    /\ UNCHANGED <<loaderVars, builderVars, graphVars, cap, visited, q, caps, cil, previous, outVars>>

\* the end of GetCapabilityInfo with a configuration
ReturnConfigured ==
    /\ pc = "search" /\ q = <<>> /\ capsTodo = <<>>
    /\ \E sorted \in sortOutputs(caps) :
         cil' = CASE config.Granularity = GranularityFunction -> sorted
                  [] config.Granularity = GranularityPackage -> packageFindings(sorted, {})
                  [] config.Granularity = GranularityIntermediate ->
                       intermediatePackages(graph, classifier, nodesByCapability, safe,
                           allNodesWithExplicitCapability, queriedPackages,
                           CHOOSE s \in sortCapabilities({ c \in DOMAIN nodesByCapability :
                                                             Has(config.CapabilitySet, c) }) : TRUE)
    /\ pc' = "done"
    /\ UNCHANGED <<loaderVars, builderVars, config, graphVars, safe, nodesByCapability,
                   allNodesWithExplicitCapability, capsTodo, cap, visited, q, caps, previous, outVars>>

NextReport ==
    \/ StartConfigured
    \/ NextCapability
    \/ Visit
    \/ ReturnConfigured
    \/ RunAgain

SpecReport == InitReport /\ [][NextReport]_vars


(***************************************************************************)
(* C17: the capability filter.                                             *)
(***************************************************************************)
\* the second run has returned; previous[1] is what the first one returned
SecondDone == pc = "done" /\ previous # <<>>

\* c is kept by the set of the run
Kept(c) ==
    \/ config.CapabilitySet.isNil
    \/ /\ ~config.CapabilitySet.isNil
       /\ (c \in config.CapabilitySet.capabilities) # config.CapabilitySet.negated

\* C17: capability c is kept iff (c is listed) differs from (the list is
\* negated), and a nil set keeps every capability; the findings returned
\* with a set are exactly the findings of the run without one, at the same
\* granularity, whose capability is kept, in the same order.
FilteredFindingsAreTheKeptOnes ==
    (SecondDone /\ config.Granularity = config.First) =>
        /\ cil = SelectSeq(previous[1], LAMBDA f : Kept(f.Capability))
        /\ \A c \in Range(CapabilityEnum) : Has(config.CapabilitySet, c) <=> Kept(c)

\* C17 witness: with the set of everything but FILES, a run at package or
\* intermediate granularity drops the FILES findings of the unfiltered run
\* and keeps another one.
NegatedSetDropsFiles ==
    /\ SecondDone
    /\ config.Granularity = config.First
    /\ config.Granularity # GranularityFunction
    /\ ~config.CapabilitySet.isNil /\ config.CapabilitySet.negated
    /\ \E f \in Range(previous[1]) : f.Capability = "CAPABILITY_FILES"
    /\ cil # <<>>
    /\ Len(cil) < Len(previous[1])


(***************************************************************************)
(* C18: package granularity is the projection of function granularity.     *)
(***************************************************************************)
\* a run at function granularity was followed by one at package
\* granularity, both with every capability
FunctionThenPackage ==
    /\ SecondDone
    /\ config.First = GranularityFunction
    /\ config.Granularity = GranularityPackage
    /\ config.CapabilitySet.isNil

\* C18: the (package, capability) pairs reported at package granularity are
\* the pairs (package of the reported function, capability) of the findings
\* at function granularity, and each pair is reported exactly once.
PackageFindingsAreTheProjection ==
    FunctionThenPackage =>
        /\ { <<cil[i].PackageDir, cil[i].Capability>> : i \in DOMAIN cil }
             = { <<Funcs[f.Function].Package, f.Capability>> : f \in Range(previous[1]) }
        /\ \A i, j \in DOMAIN cil :
             (cil[i].PackageDir = cil[j].PackageDir /\ cil[i].Capability = cil[j].Capability)
                 => i = j

\* C18 witness: two functions of one package are reported for the same
\* capability at function granularity, and the package once.
TwoFunctionsOnePackageFinding ==
    /\ FunctionThenPackage
    /\ \E i, j \in DOMAIN previous[1] :
         /\ i # j
         /\ previous[1][i].Capability = previous[1][j].Capability
         /\ Funcs[previous[1][i].Function].Package = Funcs[previous[1][j].Function].Package
    /\ Len(cil) < Len(previous[1])
    /\ cil # <<>>


(***************************************************************************)
(* C19: the findings at intermediate granularity.                          *)
(***************************************************************************)
\* one more edge behind the paths that start in S and stay among the nodes
\* of B
After(S, B) ==
    S \cup { e.Callee : e \in { d \in graph : /\ d.Caller \in S
                                              /\ ~IsExplicit(d.Caller)
                                              /\ Included(d)
                                              /\ d.Callee \in B } }

RECURSIVE ForwardClosure(_, _)
ForwardClosure(S, B) == UNION { IF A = S THEN S ELSE ForwardClosure(A, B) : A \in { After(S, B) } }

\* the functions on an admissible path from a queried function to a node
\* labelled c: those with an admissible path to such a node that a queried
\* function with such a path reaches along it
OnAdmissiblePath(c) ==
    UNION { ForwardClosure({ u \in B : InQueriedPackage(u) }, B) : B \in { Closure(Targets(c)) } }

Packages == { Funcs[n].Package : n \in Node } \ {NoPackage}

IntermediateDone == pc = "done" /\ config.Granularity = GranularityIntermediate

\* C19: at intermediate granularity there is exactly one finding for (P, c)
\* if and only if c is kept and P holds a function on an admissible path
\* from a queried function to a node labelled c; its path starts at a
\* queried function, ends at a node labelled c, follows included calls
\* through functions that are not Safe and, before the last, not explicitly
\* categorized, and holds a function of P.
IntermediateFindingsAreThePackagesOnPaths ==
    IntermediateDone =>
        /\ \A c \in Range(CapabilityEnum) :
             \A on \in { IF AllLabelled(c) = {} THEN {} ELSE OnAdmissiblePath(c) } :
               \A P \in Packages :
                 Cardinality({ i \in DOMAIN cil : cil[i].PackageDir = P /\ cil[i].Capability = c })
                   = IF Kept(c) /\ \E w \in on : Funcs[w].Package = P THEN 1 ELSE 0
        /\ \A f \in Range(cil) :
             \A p \in { PathFunctions(f) } :
               /\ InQueriedPackage(p[1])
               /\ Labelled(p[Len(p)], f.Capability)
               /\ \E i \in DOMAIN p : Funcs[p[i]].Package = f.PackageDir
               /\ \A i \in DOMAIN p : ~IsSafe(p[i])
               /\ \A i \in 1..(Len(p) - 1) :
                    /\ ~IsExplicit(p[i])
                    /\ \E e \in graph : e.Caller = p[i] /\ e.Callee = p[i + 1] /\ Included(e)

\* C19 witness: a package that is not queried and does not hold the
\* labelled function has a finding, for a path over one of its functions.
PackageBetweenReported ==
    /\ IntermediateDone
    /\ \E f \in Range(cil) :
         /\ f.PackageDir \notin queriedPackages
         /\ Funcs[NodeNamed(f.Path[Len(f.Path)].Name)].Package # f.PackageDir
         /\ Len(f.Path) = 3


(***************************************************************************)
(* Part VI.  The comparison with a baseline (diffCapabilityInfoLists).     *)
(***************************************************************************)
\* populateMap with the package as key at every granularity
populateMapByPackage(list, g) ==
    [ mk \in { <<list[i].PackageDir, list[i].Capability>> : i \in DOMAIN list } |->
        list[CHOOSE i \in DOMAIN list :
               /\ <<list[i].PackageDir, list[i].Capability>> = mk
               /\ \A j \in DOMAIN list :
                    <<list[j].PackageDir, list[j].Capability>> = mk => j <= i] ]

\* populateMap: the map from (key, capability) to the last entry of the list
\* with that key; at function granularity an entry with no path or with an
\* empty first name has no key
populateMap(list, g) ==
    LET keyed == { i \in DOMAIN list :
                     g = GranularityFunction =>
                        (Len(list[i].Path) # 0 /\ list[i].Path[1].Name # "") }
        mkOf(i) == IF g = GranularityPackage
                   THEN <<list[i].PackageDir, list[i].Capability>>
                   ELSE <<list[i].Path[1].Name, list[i].Capability>>
    IN  [ mk \in { mkOf(i) : i \in keyed } |->
            list[CHOOSE i \in keyed : mkOf(i) = mk /\ \A j \in keyed : mkOf(j) = mk => j <= i] ]

\* the comparison of the sort.Slice of the keys
mapKeyLess(x, y) ==
    IF x[2] # y[2] THEN capabilityLess(x[2], y[2])
    ELSE stringsCompare(x[1], y[1]) < 0

\* the keys in the order of the sort; no two keys are equal
RECURSIVE sortKeys(_)
sortKeys(S) ==
    IF S = {} THEN <<>>
    ELSE LET m == CHOOSE x \in S : \A y \in S \ {x} : mapKeyLess(x, y)
         IN  <<m>> \o sortKeys(S \ {m})

\* the loop over the sorted keys: what is printed, one record per message
RECURSIVE diffKeys(_, _, _)
diffKeys(keys, baselineMap, currentMap) ==
    IF keys = <<>> THEN <<>>
    ELSE LET key == Head(keys)
             inBaseline == key \in DOMAIN baselineMap
             inCurrent == key \in DOMAIN currentMap
         IN  (IF ~inBaseline /\ inCurrent
              THEN << [what |-> "has new capability", key |-> key[1], capability |-> key[2],
                       path |-> currentMap[key].Path] >>
              ELSE <<>>)
             \o (IF inBaseline /\ ~inCurrent
                 THEN << [what |-> "no longer has capability", key |-> key[1], capability |-> key[2],
                          path |-> baselineMap[key].Path] >>
                 ELSE <<>>)
             \o diffKeys(Tail(keys), baselineMap, currentMap)

\* diffCapabilityInfoLists: the messages printed and the value returned
diffCapabilityInfoLists(baseline, current, g) ==
    LET baselineMap == populateMap(baseline, g)
        currentMap == populateMap(current, g)
        keys == sortKeys(DOMAIN baselineMap \cup (DOMAIN currentMap \ DOMAIN baselineMap))
        printed == diffKeys(keys, baselineMap, currentMap)
    IN  [printed |-> printed, different |-> printed # <<>>]

\* the entries of the lists compared, and the longest list
InfoUniverse ==
    { [Capability |-> "CAPABILITY_FILES", PackageDir |-> "a",
       Path |-> <<[Name |-> "a.F"], [Name |-> "os.Open"]>>],
      [Capability |-> "CAPABILITY_FILES", PackageDir |-> "a",
       Path |-> <<[Name |-> "(a.T).M"], [Name |-> "os.Open"]>>],
      [Capability |-> "CAPABILITY_FILES", PackageDir |-> "a",
       Path |-> <<[Name |-> "a.F"], [Name |-> "b.com/b.G"], [Name |-> "os.Open"]>>],
      [Capability |-> "CAPABILITY_NETWORK", PackageDir |-> "b.com/b",
       Path |-> <<[Name |-> "b.com/b.G"]>>],
      [Capability |-> "CAPABILITY_FILES", PackageDir |-> "b.com/b",
       Path |-> <<>>],
      [Capability |-> "CAPABILITY_NETWORK", PackageDir |-> "a",
       Path |-> <<[Name |-> ""]>>] }
MaxInfos == 2
InfoLists == UNION { [1..n -> InfoUniverse] : n \in 0..MaxInfos }

\* a call of diffCapabilityInfoLists
CallDiffCapabilityInfoLists ==
    /\ loaderState = "init"
    /\ \E baseline \in InfoLists, current \in InfoLists,
          g \in {GranularityPackage, GranularityFunction} :
         answer' = [op |-> "diffCapabilityInfoLists", baseline |-> baseline, current |-> current,
                    g |-> g, result |-> diffCapabilityInfoLists(baseline, current, g)]
    /\ loaderState' = "asked"
    /\ UNCHANGED <<analysisVars, builderVars, internalMap, userMap, excludeBuiltin, loaded>>


(***************************************************************************)
(* C20: what the comparison reports.                                       *)
(***************************************************************************)
AskedDiff == loaderState = "asked" /\ answer.op = "diffCapabilityInfoLists"

\* the entry has an identity at granularity g
Identified(ci, g) ==
    g = GranularityFunction => (ci.Path # <<>> /\ ci.Path[1].Name # "")

IdentityAt(ci, g) == IF g = GranularityPackage THEN ci.PackageDir ELSE ci.Path[1].Name

\* the keys (identity, capability) of a list
KeysIn(list, g) ==
    { <<IdentityAt(ci, g), ci.Capability>> : ci \in { x \in Range(list) : Identified(x, g) } }

\* the witness paths a list holds for a key
PathsFor(list, g, k) ==
    { ci.Path : ci \in { x \in Range(list) :
                           Identified(x, g) /\ <<IdentityAt(x, g), x.Capability>> = k } }

Messages(what) ==
    { i \in DOMAIN answer.result.printed : answer.result.printed[i].what = what }

\* C20: every key of current that baseline lacks is reported once as
\* gained, with a witness path of current; every key of baseline that
\* current lacks is reported once as dropped, with a witness path of
\* baseline; nothing else is reported; and different is true if and only if
\* some key is gained or dropped, so a list compared with itself shows no
\* difference.
DiffReportsGainedAndDropped ==
    AskedDiff =>
      \A gained \in { KeysIn(answer.current, answer.g) \ KeysIn(answer.baseline, answer.g) } :
        \A dropped \in { KeysIn(answer.baseline, answer.g) \ KeysIn(answer.current, answer.g) } :
          /\ \A k \in gained :
               \E i \in Messages("has new capability") :
                 /\ <<answer.result.printed[i].key, answer.result.printed[i].capability>> = k
                 /\ answer.result.printed[i].path \in PathsFor(answer.current, answer.g, k)
          /\ \A k \in dropped :
               \E i \in Messages("no longer has capability") :
                 /\ <<answer.result.printed[i].key, answer.result.printed[i].capability>> = k
                 /\ answer.result.printed[i].path \in PathsFor(answer.baseline, answer.g, k)
          /\ Cardinality(Messages("has new capability")) = Cardinality(gained)
          /\ Cardinality(Messages("no longer has capability")) = Cardinality(dropped)
          /\ Len(answer.result.printed) = Cardinality(gained) + Cardinality(dropped)
          /\ answer.result.different <=> (gained \cup dropped # {})
          /\ answer.baseline = answer.current => ~answer.result.different

\* C20 witness: at function granularity one function is gained and another
\* dropped within one package, which at package granularity is no
\* difference.
GainedAndDroppedFunction ==
    /\ AskedDiff
    /\ answer.g = GranularityFunction
    /\ Messages("has new capability") # {}
    /\ Messages("no longer has capability") # {}
    /\ ~diffCapabilityInfoLists(answer.baseline, answer.current, GranularityPackage).different


(***************************************************************************)
(* C23: the capability type of a finding.                                  *)
(***************************************************************************)
\* the package paths that contain a dot
DottedPackages == { "b.com/b" }

\* the package a function of a path belongs to: its origin's for an
\* instantiation of a generic function
PackageOfFunction(n) ==
    IF Funcs[n].Package # NoPackage THEN Funcs[n].Package ELSE Funcs[n].Origin.Package

\* C23 as stated: a finding is Direct if and only if every function on its
\* path belongs to a queried package or to the standard library.
DirectIffQueriedOrStandard ==
    \A f \in Findings :
      \A p \in { PathFunctions(f) } :
        f.CapabilityType = "CAPABILITY_TYPE_DIRECT"
          <=> \A i \in DOMAIN p : \/ PackageOfFunction(p[i]) \in queriedPackages
                                  \/ PackageOfFunction(p[i]) \notin DottedPackages

\* C23, what the code guarantees: a finding is Direct if and only if every
\* function on its path belongs to the package of the reported function or
\* to a package whose path holds no dot, and Transitive otherwise.
DirectIffOwnPackageOrUndotted ==
    \A f \in Findings :
      \A p \in { PathFunctions(f) } :
        /\ f.CapabilityType \in {"CAPABILITY_TYPE_DIRECT", "CAPABILITY_TYPE_TRANSITIVE"}
        /\ f.CapabilityType = "CAPABILITY_TYPE_DIRECT"
             <=> \A i \in DOMAIN p : \/ PackageOfFunction(p[i]) = PackageOfFunction(f.Function)
                                     \/ PackageOfFunction(p[i]) \notin DottedPackages

\* C23 witness: a Transitive finding whose path runs through another queried
\* package, next to a Direct finding that reaches the standard library.
TransitiveThroughQueriedPackage ==
    /\ pc = "done"
    /\ \E f \in Findings :
         /\ f.CapabilityType = "CAPABILITY_TYPE_TRANSITIVE"
         /\ \A i \in DOMAIN f.Path :
              PackageOfFunction(NodeNamed(f.Path[i].Name)) \in queriedPackages \cup {"os"}
    /\ \E f \in Findings :
         /\ f.CapabilityType = "CAPABILITY_TYPE_DIRECT"
         /\ \E i \in DOMAIN f.Path :
              PackageOfFunction(NodeNamed(f.Path[i].Name)) # PackageOfFunction(f.Function)


(***************************************************************************)
(* The searches of CapabilityGraph with their queues, to count how often   *)
(* a node is put into a queue.  A Go map is ranged over in an order the    *)
(* language leaves open; up selects one of two orders.                     *)
(***************************************************************************)
\* for v := range nodes
RECURSIVE rangeOver(_, _)
rangeOver(S, up) ==
    IF S = {} THEN <<>>
    ELSE LET m == CHOOSE x \in S : \A y \in S : IF up THEN x <= y ELSE x >= y
         IN  <<m>> \o rangeOver(S \ {m}, up)

\* for _, nodes := range nodesByCapability
RECURSIVE rangeOverCapabilities(_, _)
rangeOverCapabilities(S, up) ==
    IF S = {} THEN <<>>
    ELSE LET m == CHOOSE x \in S : \A y \in S :
                    IF up THEN CapabilityNumber(x) <= CapabilityNumber(y)
                    ELSE CapabilityNumber(x) >= CapabilityNumber(y)
         IN  <<m>> \o rangeOverCapabilities(S \ {m}, up)

\* v.In, the incoming edges of v in the order of the slice
RECURSIVE edgeSlice(_)
edgeSlice(S) ==
    IF S = {} THEN <<>>
    ELSE LET m == CHOOSE x \in S : \A y \in S : x.id <= y.id
         IN  <<m>> \o edgeSlice(S \ {m})

\* searchBackwardsFromCapabilities, the initialization of the queue: every
\* node of every capability that is not safe is appended and marked visited
RECURSIVE enqueueCapabilityNodes(_, _, _, _, _)
enqueueCapabilityNodes(st, nc, safeNodes, ks, up) ==
    IF ks = <<>> THEN st
    ELSE LET nodes == rangeOver(nc[Head(ks)] \ safeNodes, up)
         IN  enqueueCapabilityNodes(
               [ seen |-> st.seen \cup Range(nodes),
                 q |-> st.q \o nodes,
                 enqueued |-> st.enqueued (+) SetToBag(Range(nodes)),
                 dequeued |-> 0 ],
               nc, safeNodes, Tail(ks), up)

\* searchBackwardsFromCapabilities, the loop over v.In
RECURSIVE backwardsEdges(_, _, _, _, _)
backwardsEdges(st, edges, c, v, safeNodes) ==
    IF edges = <<>> THEN st
    ELSE LET w == Head(edges).Caller
         IN  IF \/ ~IncludeCallOf(c, FuncString(w), FuncString(v))
                \/ w \in safeNodes
                \/ w \in st.seen
             THEN backwardsEdges(st, Tail(edges), c, v, safeNodes)
             ELSE backwardsEdges(
                    [ st EXCEPT !.seen = @ \cup {w},
                                !.q = enqueue(@, w),
                                !.enqueued = @ (+) SetToBag({w}) ],
                    Tail(edges), c, v, safeNodes)

\* searchBackwardsFromCapabilities, the loop over the queue
RECURSIVE backwardsQueue(_, _, _, _)
backwardsQueue(st, g, c, safeNodes) ==
    IF st.q = <<>> THEN st
    ELSE LET v == Head(st.q)
         IN  backwardsQueue(
               backwardsEdges([ st EXCEPT !.q = Tail(@), !.dequeued = @ + 1 ],
                              edgeSlice({ e \in g : e.Callee = v }), c, v, safeNodes),
               g, c, safeNodes)

NoSearch == [ seen |-> {}, q |-> <<>>, enqueued |-> EmptyBag, dequeued |-> 0 ]

searchBackwardsFromCapabilitiesQueue(g, c, nc, safeNodes, up) ==
    backwardsQueue(
      enqueueCapabilityNodes(NoSearch, nc, safeNodes,
                             rangeOverCapabilities(DOMAIN nc, up), up),
      g, c, safeNodes)

\* searchForwardsFromQueriedFunctions, the loop over the map out
RECURSIVE forwardsCallees(_, _)
forwardsCallees(st, out) ==
    IF out = <<>> THEN st
    ELSE LET w == Head(out)
         IN  IF w \in st.seen THEN forwardsCallees(st, Tail(out))
             ELSE forwardsCallees(
                    [ st EXCEPT !.seen = @ \cup {w},
                                !.q = enqueue(@, w),
                                !.enqueued = @ (+) SetToBag({w}) ],
                    Tail(out))

\* searchForwardsFromQueriedFunctions, the loop over the queue
RECURSIVE forwardsQueue(_, _, _, _, _, _)
forwardsQueue(st, g, c, explicit, canReach, up) ==
    IF st.q = <<>> THEN st
    ELSE LET v == Head(st.q)
             st1 == [ st EXCEPT !.q = Tail(@), !.dequeued = @ + 1 ]
         IN  IF v \in explicit
             THEN forwardsQueue(st1, g, c, explicit, canReach, up)
             ELSE forwardsQueue(
                    forwardsCallees(st1, rangeOver(forwardCallees(g, c, v, canReach), up)),
                    g, c, explicit, canReach, up)

searchForwardsFromQueriedFunctionsQueue(g, c, explicit, canReach, nodes, up) ==
    forwardsQueue([ seen |-> nodes, q |-> rangeOver(nodes, up),
                    enqueued |-> SetToBag(nodes), dequeued |-> 0 ],
                  g, c, explicit, canReach, up)

(***************************************************************************)
(* The programs of the search specification: functions to which the        *)
(* scanner gives two capabilities, on graphs with cycles, self-loops and   *)
(* parallel edges.                                                         *)
(***************************************************************************)
ReflectsFlagged == Kind("CAPABILITY_UNSPECIFIED", TRUE, TRUE, "", TRUE)

SearchLabellings ==
    { l \in [Node -> { Plain, Safe, Files, ReflectsFlagged }] :
        /\ l[1] \in {Plain}
        /\ l[2] \in {Plain, ReflectsFlagged}
        /\ l[3] \in {Safe, ReflectsFlagged}
        /\ l[4] \in {Files, ReflectsFlagged}
        /\ l[5] \in {Files} }

InitSearch == InitAnalysis(SearchLabellings)

SpecSearch == InitSearch /\ [][Next]_vars


(***************************************************************************)
(* C28: the searches terminate and put a node into the queue once.         *)
(***************************************************************************)
MapOrders == BOOLEAN

\* the capabilities the search starts from
MergedCapabilities ==
    mergeCapabilities(getNodeCapabilities(classifier),
                      getExtraNodesByCapability(allFunctions, unsafePointerFunctions))

\* the search from the capabilities as CapabilityGraph runs it
BackwardsRun(up) ==
    searchBackwardsFromCapabilitiesQueue(
      graph, classifier, MergedCapabilities, getSafe(classifier), up)

\* the search from the queried functions as CapabilityGraph runs it
ForwardsRun(up) ==
    LET canReach == BackwardsRun(up).seen
    IN  searchForwardsFromQueriedFunctionsQueue(
          graph, classifier, explicitNodes(getNodeCapabilities(classifier)), canReach,
          { v \in canReach : isQueried(v, queriedPackages) }, up)

\* the arrangements of a set
RECURSIVE Orders(_)
Orders(S) ==
    IF S = {} THEN { <<>> }
    ELSE UNION { { <<m>> \o t : t \in Orders(S \ {m}) } : m \in S }

\* the number of capabilities under which the search finds node n
CapabilitiesOf(n) ==
    Cardinality({ k \in DOMAIN MergedCapabilities : n \in MergedCapabilities[k] })

\* a finished search took every node off the queue that it put there
Ended(run) == run.q = <<>> /\ run.dequeued = BagCardinality(run.enqueued)

OncePerNode(run) == \A n \in Node : CopiesIn(n, run.enqueued) = IF n \in run.seen THEN 1 ELSE 0

\* forEachPath: the queue holds visited nodes, each once
QueueOfVisited ==
    pc = "search" =>
      /\ Range(q) \subseteq DOMAIN visited
      /\ \A i, j \in DOMAIN q : q[i] = q[j] => i = j

\* forEachPath: a step of the search of one capability puts only nodes into
\* the queue that were not visited before and marks them visited, each once
EnqueuesUnvisited ==
    (pc = "search" /\ q # <<>> /\ pc' = "search") =>
      \E new \in SUBSET (Node \ DOMAIN visited) :
        /\ DOMAIN visited' = DOMAIN visited \cup new
        /\ \E added \in Orders(new) : q' = Tail(q) \o added

\* forEachPath: what is left to do, a natural number that every step of the
\* search lowers, so that the search takes finitely many steps
Remaining ==
    Len(capsTodo) * (Cardinality(Node) + 1) + Len(q) + Cardinality(Node \ DOMAIN visited)

StepLowersRemaining ==
    (pc = "search" /\ pc' = "search") => Remaining' < Remaining

\* C28 as stated: the three searches end, and in each of them every node is
\* put into the queue at most once.
EveryNodeEnqueuedOnce ==
    /\ [](QueueOfVisited
          /\ (pc = "graph" =>
                \A up \in MapOrders :
                  /\ Ended(BackwardsRun(up)) /\ OncePerNode(BackwardsRun(up))
                  /\ Ended(ForwardsRun(up)) /\ OncePerNode(ForwardsRun(up))))
    /\ [][EnqueuesUnvisited /\ StepLowersRemaining]_vars

\* C28, what the code guarantees: the three searches end; forEachPath and the
\* forward search put every node into the queue at most once; the backward
\* search of CapabilityGraph puts a node that has capabilities and is not
\* safe into the queue once for each of its capabilities and every other
\* node at most once.
EveryNodeEnqueuedOncePerCapability ==
    /\ [](QueueOfVisited
          /\ (pc = "graph" =>
                \A up \in MapOrders :
                  /\ Ended(BackwardsRun(up))
                  /\ \A n \in Node :
                       CopiesIn(n, BackwardsRun(up).enqueued) =
                         IF n \notin BackwardsRun(up).seen THEN 0
                         ELSE IF CapabilitiesOf(n) > 0 THEN CapabilitiesOf(n) ELSE 1
                  /\ Ended(ForwardsRun(up)) /\ OncePerNode(ForwardsRun(up))))
    /\ [][EnqueuesUnvisited /\ StepLowersRemaining]_vars

\* C28 witness: CapabilityGraph has searched a graph with a cycle, in which a
\* function with two capabilities was put into the queue twice.
TwoCapabilitiesOnACycle ==
    /\ pc = "graph"
    /\ \E e1, e2 \in graph : e1.Caller = e2.Callee /\ e1.Callee = e2.Caller /\ e1.Caller # e1.Callee
    /\ \E n \in Node : CopiesIn(n, BackwardsRun(TRUE).enqueued) = 2
    /\ \E n \in Node : CapabilitiesOf(n) = 0 /\ CopiesIn(n, BackwardsRun(TRUE).enqueued) = 1
    /\ BagCardinality(ForwardsRun(TRUE).enqueued) >= 2


(***************************************************************************)
(* GetCapabilityStats and GetCapabilityCounts.  Both run forEachPath with  *)
(* a callback of their own; callbacks is the sequence of the calls of the  *)
(* callback, each with its capability and the path from its node.          *)
(***************************************************************************)
\* isDirect: no function of the path is in another package than the first
\* one's, unless in the standard library
isDirect(path) ==
    LET n == Funcs[NodeNamed(path[1].Name)].Package
    IN  \A i \in DOMAIN path :
          ~(n # packagePath(NodeNamed(path[i].Name))
            /\ ~isStdLib(packagePath(NodeNamed(path[i].Name))))

NewCounter == [ capability |-> "CAPABILITY_UNSPECIFIED", count |-> 0,
                direct_count |-> 0, transitive_count |-> 0, example |-> <<>> ]

\* a variant that counts the call only under direct_count or transitive_count
statsCallbackNoCount(cm, c, path) ==
    LET old == IF c \in DOMAIN cm THEN cm[c] ELSE NewCounter
    IN  [ k \in DOMAIN cm \cup {c} |->
            IF k # c THEN cm[k]
            ELSE [ capability |-> c,
                   count |-> IF isDirect(path) THEN old.count + 1 ELSE old.count,
                   direct_count |-> old.direct_count + (IF isDirect(path) THEN 1 ELSE 0),
                   transitive_count |-> old.transitive_count + (IF isDirect(path) THEN 0 ELSE 1),
                   example |-> path ] ]

\* the callback of GetCapabilityStats: one more call for the capability,
\* direct or transitive, and the path as the example
statsCallback(cm, c, path) ==
    LET old == IF c \in DOMAIN cm THEN cm[c] ELSE NewCounter
    IN  [ k \in DOMAIN cm \cup {c} |->
            IF k # c THEN cm[k]
            ELSE [ capability |-> c,
                   count |-> old.count + 1,
                   direct_count |-> old.direct_count + (IF isDirect(path) THEN 1 ELSE 0),
                   transitive_count |-> old.transitive_count + (IF isDirect(path) THEN 0 ELSE 1),
                   example |-> path ] ]

RECURSIVE statsOver(_, _)
statsOver(cm, callbacks) ==
    IF callbacks = <<>> THEN cm
    ELSE statsOver(statsCallback(cm, Head(callbacks).Capability, Head(callbacks).Path),
                   Tail(callbacks))

\* GetCapabilityStats: the counters, sorted by capability
GetCapabilityStats(callbacks) ==
    LET cm == statsOver(<< >>, callbacks)
    IN  { [ i \in DOMAIN ks |->
              [ Capability |-> cm[ks[i]].capability,
                Count |-> cm[ks[i]].count,
                DirectCount |-> cm[ks[i]].direct_count,
                TransitiveCount |-> cm[ks[i]].transitive_count,
                ExampleCallpath |-> cm[ks[i]].example ] ] :
          ks \in sortCapabilities(DOMAIN cm) }

\* GetCapabilityCounts: the number of calls of the callback per capability
RECURSIVE GetCapabilityCounts(_)
GetCapabilityCounts(callbacks) ==
    IF callbacks = <<>> THEN << >>
    ELSE LET cm == GetCapabilityCounts(SubSeq(callbacks, 1, Len(callbacks) - 1))
             c == callbacks[Len(callbacks)].Capability
         IN  [ k \in DOMAIN cm \cup {c} |->
                 IF k # c THEN cm[k]
                 ELSE IF c \in DOMAIN cm THEN cm[c] + 1 ELSE 1 ]

(***************************************************************************)
(* C30: the statistics agree with the findings.                            *)
(***************************************************************************)
\* the positions of GetCapabilityInfo's list with capability c
FindingsWith(c) == { i \in DOMAIN cil : cil[i].Capability = c }

DirectFindingsWith(c) ==
    { i \in FindingsWith(c) : cil[i].CapabilityType = "CAPABILITY_TYPE_DIRECT" }

\* C30: on the same inputs, GetCapabilityStats has an entry for a capability
\* exactly if GetCapabilityInfo has a finding with it; the entry's count is
\* direct_count + transitive_count, is GetCapabilityCounts' number for the
\* capability and is the number of findings with the capability; and its
\* direct_count is the number of those findings whose type is Direct.
StatsAgreeWithFindings ==
    pc = "done" =>
      \A stats \in GetCapabilityStats(caps) :
        \A counts \in { GetCapabilityCounts(caps) } :
          /\ { stats[i].Capability : i \in DOMAIN stats } = { cil[i].Capability : i \in DOMAIN cil }
          /\ DOMAIN counts = { cil[i].Capability : i \in DOMAIN cil }
          /\ \A i, j \in DOMAIN stats : stats[i].Capability = stats[j].Capability => i = j
          /\ \A i \in DOMAIN stats :
               /\ stats[i].Count = stats[i].DirectCount + stats[i].TransitiveCount
               /\ stats[i].Count = counts[stats[i].Capability]
               /\ stats[i].Count = Cardinality(FindingsWith(stats[i].Capability))
               /\ stats[i].DirectCount = Cardinality(DirectFindingsWith(stats[i].Capability))

\* C30 witness: statistics with two capabilities, one of them with direct and
\* transitive findings.
StatsWithDirectAndTransitive ==
    /\ pc = "done"
    /\ \E stats \in GetCapabilityStats(caps) :
         /\ Len(stats) >= 2
         /\ \E i \in DOMAIN stats : stats[i].DirectCount >= 1 /\ stats[i].TransitiveCount >= 1


(***************************************************************************)
(* Part VII.  The comparison of two revisions (capslock-git-diff).  What   *)
(* is printed is a sequence of records, one per line or message.           *)
(***************************************************************************)
\* populateMap of capslock-git-diff: the key is the package directory or
\* the first function of the path; an entry with an empty key has none
populateMapGitDiff(list, g) ==
    LET keyed == { i \in DOMAIN list :
                     /\ g \in {"function", ""} => Len(list[i].Path) # 0
                     /\ (IF g \in {"package", "intermediate"} THEN list[i].PackageDir
                         ELSE list[i].Path[1].Name) # "" }
        mkOf(i) == IF g \in {"package", "intermediate"}
                   THEN <<list[i].PackageDir, list[i].Capability>>
                   ELSE <<list[i].Path[1].Name, list[i].Capability>>
    IN  [ mk \in { mkOf(i) : i \in keyed } |->
            list[CHOOSE i \in keyed : mkOf(i) = mk /\ \A j \in keyed : mkOf(j) = mk => j <= i] ]

\* sort.Strings
RECURSIVE sortStrings(_)
sortStrings(S) ==
    IF S = {} THEN <<>>
    ELSE LET m == CHOOSE x \in S : \A y \in S : stringsCompare(x, y) <= 0
         IN  <<m>> \o sortStrings(S \ {m})

\* cover: the pending keys on the path of ci, sorted; they stop being pending
cover(pending, ci, g) ==
    sortStrings({ k \in { IF g \in {"package", "intermediate"} THEN ci.Path[i].Package
                          ELSE ci.Path[i].Name : i \in DOMAIN ci.Path } :
                    k # "" /\ k \in pending })

\* a variant that prints the capabilities in the order of the slice
printCapabilitiesUnsorted(cs) ==
    [ cs |-> cs, lines |-> [ i \in DOMAIN cs |-> [what |-> "capability", capability |-> cs[i]] ] ]

\* slices.Sort on a slice of capabilities
RECURSIVE slicesSort(_)
slicesSort(cs) ==
    IF cs = <<>> THEN <<>>
    ELSE LET i == CHOOSE x \in DOMAIN cs :
                    \A y \in DOMAIN cs : CapabilityNumber(cs[x]) <= CapabilityNumber(cs[y])
         IN  <<cs[i]>> \o slicesSort(SubSeq(cs, 1, i - 1) \o SubSeq(cs, i + 1, Len(cs)))

\* sortAndPrintCapabilities: sorts the slice it is given in place and prints
\* one line per capability; cs is the slice afterwards
sortAndPrintCapabilities(cs) ==
    LET sorted == slicesSort(cs)
    IN  [ cs |-> sorted,
          lines |-> [ i \in DOMAIN sorted |-> [what |-> "capability", capability |-> sorted[i]] ] ]

\* summarizeNewCapabilities; order is the order in which the map newUses is
\* ranged over
summarizeNewCapabilities(keys, baselineMap, currentMap, order) ==
    LET hasAnyOldUse == { keys[i][2] : i \in { j \in DOMAIN keys : keys[j] \in DOMAIN baselineMap } }
        newUses(c) == Cardinality({ i \in DOMAIN keys :
                                      /\ keys[i][2] = c
                                      /\ keys[i] \notin DOMAIN baselineMap
                                      /\ keys[i] \in DOMAIN currentMap })
        IsNew(c) == c \notin hasAnyOldUse
        IsOld(c) == c \in hasAnyOldUse
        newlyUsed == SelectSeq(order, IsNew)
        existing == SelectSeq(order, IsOld)
        RECURSIVE sum(_)
        sum(s) == IF s = <<>> THEN 0 ELSE newUses(Head(s)) + sum(Tail(s))
        newUsesOfExisting == sum(existing)
        first == IF Len(newlyUsed) > 0 THEN sortAndPrintCapabilities(newlyUsed)
                 ELSE [cs |-> newlyUsed, lines |-> <<>>]
        second == IF newUsesOfExisting > 0 THEN sortAndPrintCapabilities(existing)
                  ELSE [cs |-> existing, lines |-> <<>>]
    IN  [ newlyUsedCapabilities |-> first.cs,
          existingCapabilitiesWithNewUses |-> second.cs,
          printed |->
            (IF Len(newlyUsed) > 0
             THEN <<[what |-> "Added new capabilities", n |-> Len(newlyUsed)]>> \o first.lines
             ELSE <<>>)
            \o (IF newUsesOfExisting > 0
                THEN <<[what |-> "Added new uses of existing capabilities",
                        n |-> newUsesOfExisting]>> \o second.lines
                ELSE <<>>)
            \o (IF Len(newlyUsed) = 0 /\ newUsesOfExisting = 0
                THEN <<[what |-> "none gained"]>> ELSE <<>>) ]

\* the second loop over the keys of capability c: one message per key that
\* is still pending, for all the pending keys its call path covers
RECURSIVE printPending(_, _, _, _, _)
printPending(keys, c, pending, currentMap, g) ==
    IF keys = <<>> THEN <<>>
    ELSE LET key == Head(keys)
         IN  IF key[2] # c \/ key[1] \notin pending
             THEN printPending(Tail(keys), c, pending, currentMap, g)
             ELSE LET covered == cover(pending, currentMap[key], g)
                  IN  << [ what |-> "has capability",
                           key |-> key[1],
                           keys |-> IF Len(covered) > 1 THEN covered ELSE <<key[1]>>,
                           capability |-> c,
                           path |-> currentMap[key].Path ] >>
                      \o printPending(Tail(keys), c, pending \ Range(covered), currentMap, g)

\* the loop over the capabilities of the two lists, in their order
RECURSIVE printChanges(_, _, _, _, _)
printChanges(cs, keys, baselineMap, currentMap, g) ==
    IF cs = <<>> THEN <<>>
    ELSE LET c == Head(cs)
             pending == { keys[i][1] : i \in { j \in DOMAIN keys :
                                                 /\ keys[j][2] = c
                                                 /\ keys[j] \notin DOMAIN baselineMap
                                                 /\ keys[j] \in DOMAIN currentMap } }
         IN  (IF g = "" THEN <<>> ELSE <<[what |-> "New with capability", capability |-> c]>>)
             \o printPending(keys, c, pending, currentMap, g)
             \o printChanges(Tail(cs), keys, baselineMap, currentMap, g)

\* diffCapabilityInfoLists of capslock-git-diff, for one order of ranging
\* over newUses
diffCapabilityInfoListsGitDiff(baseline, current, g, order) ==
    LET baselineMap == populateMapGitDiff(baseline, g)
        currentMap == populateMapGitDiff(current, g)
        keys == sortKeys(DOMAIN baselineMap \cup (DOMAIN currentMap \ DOMAIN baselineMap))
        summary == summarizeNewCapabilities(keys, baselineMap, currentMap, order)
        changes == printChanges(summary.newlyUsedCapabilities
                                  \o summary.existingCapabilitiesWithNewUses,
                                keys, baselineMap, currentMap, g)
    IN  [ printed |-> summary.printed \o changes,
          newlyUsedCapabilities |-> summary.newlyUsedCapabilities,
          existingCapabilitiesWithNewUses |-> summary.existingCapabilitiesWithNewUses,
          different |-> \E i \in DOMAIN keys :
                          keys[i] \notin DOMAIN baselineMap /\ keys[i] \in DOMAIN currentMap ]

\* the capabilities with a key that current has and baseline lacks
newUsesKeys(baseline, current, g) ==
    { k[2] : k \in DOMAIN populateMapGitDiff(current, g) \ DOMAIN populateMapGitDiff(baseline, g) }

\* the entries of the lists of the two revisions
PathElement(name, pkg) == [Name |-> name, Package |-> pkg]

RevisionInfoUniverse ==
    { [Capability |-> "CAPABILITY_FILES", PackageDir |-> "a",
       Path |-> <<PathElement("a.F", "a"), PathElement("os.Open", "os")>>],
      [Capability |-> "CAPABILITY_FILES", PackageDir |-> "b.com/b",
       Path |-> <<PathElement("b.com/b.G", "b.com/b"), PathElement("os.Open", "os")>>],
      [Capability |-> "CAPABILITY_FILES", PackageDir |-> "a",
       Path |-> <<PathElement("a.F", "a"), PathElement("b.com/b.G", "b.com/b"),
                  PathElement("os.Open", "os")>>],
      [Capability |-> "CAPABILITY_NETWORK", PackageDir |-> "a",
       Path |-> <<PathElement("a.F", "a"), PathElement("os.Open", "os")>>],
      [Capability |-> "CAPABILITY_NETWORK", PackageDir |-> "b.com/b",
       Path |-> <<PathElement("b.com/b.G", "b.com/b"), PathElement("os.Open", "os")>>] }

RevisionInfoLists == UNION { [1..n -> RevisionInfoUniverse] : n \in 0..MaxInfos }

\* a call of diffCapabilityInfoLists of capslock-git-diff; the result is the
\* set of what the call can print and return
CallDiffCapabilityInfoListsGitDiff ==
    /\ loaderState = "init"
    /\ \E baseline \in RevisionInfoLists, current \in RevisionInfoLists,
          g \in {"package", "intermediate", "function", ""} :
         answer' = [op |-> "diffCapabilityInfoListsGitDiff",
                    baseline |-> baseline, current |-> current, g |-> g,
                    results |-> { diffCapabilityInfoListsGitDiff(baseline, current, g, order) :
                                    order \in Orders(newUsesKeys(baseline, current, g)) }]
    /\ loaderState' = "asked"
    /\ UNCHANGED <<analysisVars, builderVars, internalMap, userMap, excludeBuiltin, loaded>>

(***************************************************************************)
(* C21: the order of the comparison report.                                *)
(***************************************************************************)
AskedGitDiff == loaderState = "asked" /\ answer.op = "diffCapabilityInfoListsGitDiff"

\* 1 for a capability the baseline uses somewhere, 0 for one it does not
UsedInBaseline(c) ==
    IF \E i \in DOMAIN answer.baseline : answer.baseline[i].Capability = c THEN 1 ELSE 0

\* capability c is reported before capability d, or they are the same
CapabilityBefore(c, d) ==
    \/ UsedInBaseline(c) < UsedInBaseline(d)
    \/ UsedInBaseline(c) = UsedInBaseline(d) /\ CapabilityNumber(c) <= CapabilityNumber(d)

\* the lines of one kind
LinesOf(r, what) == { i \in DOMAIN r.printed : r.printed[i].what = what }

\* C21: whatever the order in which the maps are ranged over, the report is
\* the same; in the summary, in the headings and in the messages the
\* capabilities without use in the baseline come before those the baseline
\* uses, each group in the order of the enum; the messages of one capability
\* come in the lexicographic order of their keys, as do the keys of one
\* message.
ReportOrdered ==
    AskedGitDiff =>
      /\ Cardinality(answer.results) = 1
      /\ \A r \in answer.results :
           /\ \A what \in {"capability", "New with capability", "has capability"} :
                \A i, j \in LinesOf(r, what) :
                  i < j => /\ CapabilityBefore(r.printed[i].capability, r.printed[j].capability)
                           /\ what # "has capability" =>
                                r.printed[i].capability # r.printed[j].capability
           /\ \A i, j \in LinesOf(r, "has capability") :
                (i < j /\ r.printed[i].capability = r.printed[j].capability)
                  => stringsCompare(r.printed[i].key, r.printed[j].key) < 0
           /\ \A i \in LinesOf(r, "has capability") :
                /\ \A m, n \in DOMAIN r.printed[i].keys :
                     m < n => stringsCompare(r.printed[i].keys[m], r.printed[i].keys[n]) < 0
                /\ \E h \in LinesOf(r, "New with capability") \cup {0} :
                     answer.g # "" => /\ h # 0 /\ h < i
                                      /\ r.printed[h].capability = r.printed[i].capability
                                      /\ \A k \in (h + 1)..i : r.printed[k].what = "has capability"

\* C21 witness: NETWORK, which the baseline does not use, is reported
\* before FILES, of which the baseline has another use.
NewCapabilityBeforeNewUse ==
    /\ AskedGitDiff
    /\ \E r \in answer.results :
         \E i, j \in LinesOf(r, "has capability") :
           /\ i < j
           /\ r.printed[i].capability = "CAPABILITY_NETWORK"
           /\ r.printed[j].capability = "CAPABILITY_FILES"
           /\ UsedInBaseline("CAPABILITY_FILES") = 1


(***************************************************************************)
(* Part VIII.  The command: main, run and RunCapslock.  An error is a      *)
(* record with its kind; NoError is nil.                                   *)
(***************************************************************************)
NoError == [kind |-> "nil"]
ErrorOf(kind) == [kind |-> kind]

\* granularityFromString
granularityFromString(g) ==
    CASE g = "package" -> [g |-> GranularityPackage, err |-> NoError]
      [] g = "function" -> [g |-> GranularityFunction, err |-> NoError]
      [] OTHER -> [g |-> GranularityPackage, err |-> ErrorOf("unknown granularity")]

\* compare: file is what the file system holds under the baseline's name
compare(file, current, granularity) ==
    LET g == granularityFromString(granularity)
    IN  IF g.err # NoError THEN [different |-> FALSE, err |-> g.err]
        ELSE IF file.kind = "unreadable"
        THEN [different |-> FALSE, err |-> ErrorOf("reading comparison file")]
        ELSE IF file.kind = "unparsable"
        THEN [different |-> FALSE, err |-> ErrorOf("parsing comparison file")]
        ELSE [different |-> diffCapabilityInfoLists(file.list, current, g.g).different,
              err |-> NoError]

\* a variant that reports what compare returned: its error, or a
\* DifferenceFoundError when the lists differ
RunCapslockReturningDifference(args, output, file, current, granularity) ==
    IF output = "compare" /\ Len(args) # 1 THEN ErrorOf("usage")
    ELSE IF output # "compare" /\ Len(args) >= 1 THEN ErrorOf("unknown command")
    ELSE IF output = "compare"
    THEN LET r == compare(file, current, granularity)
         IN  IF r.err # NoError THEN r.err
             ELSE IF r.different THEN ErrorOf("DifferenceFoundError") ELSE NoError
    ELSE NoError

\* RunCapslock: with output compare it calls compare, drops what compare
\* returns and goes on to the default output
RunCapslock(args, output, file, current, granularity) ==
    IF output = "compare" /\ Len(args) # 1 THEN ErrorOf("usage")
    ELSE IF output # "compare" /\ Len(args) >= 1 THEN ErrorOf("unknown command")
    ELSE NoError

\* run: the packages are loaded, then RunCapslock
run(loads, args, output, file, current, granularity) ==
    IF ~loads THEN ErrorOf("loading packages")
    ELSE RunCapslock(args, output, file, current, granularity)

\* main: the exit status for the error run returned
main(loads, args, output, file, current, granularity) ==
    LET err == run(loads, args, output, file, current, granularity)
    IN  CASE err = NoError -> 0
          [] err.kind = "DifferenceFoundError" -> 1
          [] OTHER -> 2

\* the lists compared, and what the baseline's file can hold
ComparedLists == { l \in InfoLists : Len(l) <= 1 }

BaselineFiles ==
    { [kind |-> "unreadable", list |-> <<>>], [kind |-> "unparsable", list |-> <<>>] }
      \cup { [kind |-> "json", list |-> l] : l \in ComparedLists }

\* a run of the command
CallMain ==
    /\ loaderState = "init"
    /\ \E loads \in BOOLEAN, args \in { <<>>, <<"a/x.go">>, <<"a/x.go", "a/y.go">> },
          output \in { "", "json", "compare" }, file \in BaselineFiles,
          current \in ComparedLists, granularity \in { "package", "function", "" } :
         answer' = [op |-> "main", loads |-> loads, args |-> args, output |-> output,
                    file |-> file, current |-> current, granularity |-> granularity,
                    compared |-> compare(file, current, granularity),
                    status |-> main(loads, args, output, file, current, granularity)]
    /\ loaderState' = "asked"
    /\ UNCHANGED <<analysisVars, builderVars, internalMap, userMap, excludeBuiltin, loaded>>

(***************************************************************************)
(* C22: the exit status.                                                   *)
(***************************************************************************)
AskedMain == loaderState = "asked" /\ answer.op = "main"

\* the run compares with a baseline and nothing but the comparison can fail
Comparing == answer.loads /\ answer.output = "compare" /\ Len(answer.args) = 1

\* the baseline was read and parsed and the granularity is known
Compared == answer.file.kind = "json" /\ answer.granularity \in {"package", "function"}

\* the two lists have different keys at the granularity of the run
Differ ==
    \E g \in { IF answer.granularity = "package" THEN GranularityPackage
               ELSE GranularityFunction } :
      KeysIn(answer.file.list, g) # KeysIn(answer.current, g)

\* C22 as stated: a comparison exits with 0 when there is no difference,
\* with 1 when there is one and with 2 on any error, such as a baseline
\* that cannot be read or parsed; a run without comparison exits with 0.
ExitStatusTellsDifference ==
    AskedMain =>
      /\ (Comparing /\ Compared /\ ~Differ) => answer.status = 0
      /\ (Comparing /\ Compared /\ Differ) => answer.status = 1
      /\ (Comparing /\ ~Compared) => answer.status = 2
      /\ ~answer.loads => answer.status = 2
      /\ (answer.loads /\ answer.output # "compare" /\ answer.args = <<>>) => answer.status = 0

\* C22, what RunCapslock does: the exit status is 2 when the packages do
\* not load, when a comparison is not given exactly one file name, or when
\* another output is given an argument; it is 0 otherwise, whatever the
\* comparison found.
ExitStatusIgnoresComparison ==
    AskedMain =>
      answer.status =
        IF \/ ~answer.loads
           \/ answer.output = "compare" /\ Len(answer.args) # 1
           \/ answer.output # "compare" /\ Len(answer.args) >= 1
        THEN 2 ELSE 0

\* C22 witness: a comparison that found a difference, and one whose
\* baseline could not be read, exit with 0.
DifferenceExitsZero ==
    /\ AskedMain /\ Comparing
    /\ answer.status = 0
    /\ \/ Compared /\ Differ /\ answer.compared.different
       \/ answer.file.kind = "unreadable" /\ answer.compared.err # NoError


(***************************************************************************)
(* Part IX.  Syntax trees (go/ast) with the type information the scanner   *)
(* and the rewriter read (go/types).  A node has its kind, a name where    *)
(* the kind has one, the type of an expression, the package an identifier  *)
(* refers to, its children that are single fields and its children that    *)
(* are the elements of a list field.                                       *)
(***************************************************************************)
\* a type: t is named, pointer (to the named type), signature, basic, nil
\* (untyped nil), type (the expression is a type) or none (no information)
TypeOf(t, pkg, name, underlying, methods, params) ==
    [ t |-> t, pkg |-> pkg, name |-> name, underlying |-> underlying,
      methods |-> methods, params |-> params ]

NoType         == TypeOf("none", "", "", "", {}, 0)
UntypedNil     == TypeOf("nil", "", "", "", {}, 0)
IntType        == TypeOf("basic", "", "int", "int", {}, 0)
UnsafePointer  == TypeOf("basic", "unsafe", "Pointer", "unsafe.Pointer", {}, 0)
NamedUnsafe    == TypeOf("named", "a", "up", "unsafe.Pointer", {}, 0)
ToIntPointer   == TypeOf("type", "", "*int", "pointer", {}, 0)
ToUintptr      == TypeOf("type", "", "uintptr", "uintptr", {}, 0)
ToNamedUintptr == TypeOf("type", "a", "addr", "uintptr", {}, 0)
FuncType(n)    == TypeOf("signature", "", "func", "func", {}, n)

AstNode(kind, name, type, uses, single, list) ==
    [ kind |-> kind, name |-> name, type |-> type, uses |-> uses,
      single |-> single, list |-> list ]

NilNode == AstNode("nil", "", NoType, "", <<>>, <<>>)

Ident(name, type)         == AstNode("Ident", name, type, "", <<>>, <<>>)
PkgIdent(name, path)      == AstNode("Ident", name, NoType, path, <<>>, <<>>)
BasicLit(type)            == AstNode("BasicLit", "0", type, "", <<>>, <<>>)
CallExpr(fun, args, type) == AstNode("CallExpr", "", type, "", <<fun>>, args)
FuncLit(body, type)       == AstNode("FuncLit", "", type, "", <<body>>, <<>>)
SelectorExpr(x, sel, type) == AstNode("SelectorExpr", sel, type, "", <<x>>, <<>>)
ParenExpr(x)              == AstNode("ParenExpr", "", x.type, "", <<x>>, <<>>)
StarExpr(x, type)         == AstNode("StarExpr", "", type, "", <<x>>, <<>>)
ExprStmt(x)               == AstNode("ExprStmt", "", NoType, "", <<x>>, <<>>)
BlockStmt(list)           == AstNode("BlockStmt", "", NoType, "", <<>>, list)
FuncDecl(name, body)      == AstNode("FuncDecl", name, NoType, "", <<body>>, <<>>)
GenDecl(values)           == AstNode("GenDecl", "", NoType, "", <<>>, values)
File(decls)               == AstNode("File", "", NoType, "", <<>>, decls)

\* the children of a node in the order in which they are walked; a node of
\* a tree is named by the path of child numbers that leads to it
Children(node) == node.single \o node.list

RECURSIVE NodeAt(_, _)
NodeAt(root, path) ==
    IF path = <<>> THEN root ELSE NodeAt(Children(root)[Head(path)], Tail(path))

RECURSIVE PathsOf(_)
PathsOf(node) ==
    { <<>> } \cup UNION { { <<i>> \o p : p \in PathsOf(Children(node)[i]) } :
                          i \in DOMAIN Children(node) }

(***************************************************************************)
(* The visitor that finds the conversions of unsafe.Pointer values.        *)
(***************************************************************************)
\* currentFunction of a visitor that is in no function definition
NoFunction == <<0>>

\* the init function of the package
PackageInit == <<0>>

\* the CallExpr case of Visit: a conversion of one argument, whose type is
\* equivalent to unsafe.Pointer, to a type that is not uintptr
convertsUnsafePointer(node) ==
    /\ node.kind = "CallExpr"
    /\ node.single[1].type.t = "type"
    /\ node.single[1].type.underlying # "uintptr"
    /\ Len(node.list) = 1
    /\ node.list[1].type.t # "none"
    /\ node.list[1].type.underlying = "unsafe.Pointer"

\* a variant for which only a declaration is the current function
visitorVisitDeclarations(node, path, currentFunction) ==
    [ currentFunction |-> IF node.kind \in {"FuncDecl"} THEN path ELSE currentFunction,
      unsafeFunctionNodes |->
        IF convertsUnsafePointer(node) /\ currentFunction # NoFunction
        THEN {currentFunction} ELSE {},
      seenUnsafePointerUseInInitialization |->
        convertsUnsafePointer(node) /\ currentFunction = NoFunction ]

\* visitor.Visit for the node at path: the current function of the visitor
\* that visits the children, and what the visit adds to the sets
visitorVisit(node, path, currentFunction) ==
    [ currentFunction |-> IF node.kind \in {"FuncDecl", "FuncLit"} THEN path
                          ELSE currentFunction,
      unsafeFunctionNodes |->
        IF convertsUnsafePointer(node) /\ currentFunction # NoFunction
        THEN {currentFunction} ELSE {},
      seenUnsafePointerUseInInitialization |->
        convertsUnsafePointer(node) /\ currentFunction = NoFunction ]

\* ast.Walk with the visitor
RECURSIVE astWalk(_, _, _)
astWalk(node, path, currentFunction) ==
    IF node.kind = "nil"
    THEN [ unsafeFunctionNodes |-> {}, seenUnsafePointerUseInInitialization |-> FALSE ]
    ELSE LET v == visitorVisit(node, path, currentFunction)
             below == [ i \in DOMAIN Children(node) |->
                          astWalk(Children(node)[i], Append(path, i), v.currentFunction) ]
         IN  [ unsafeFunctionNodes |->
                 v.unsafeFunctionNodes
                   \cup UNION { below[i].unsafeFunctionNodes : i \in DOMAIN below },
               seenUnsafePointerUseInInitialization |->
                 \/ v.seenUnsafePointerUseInInitialization
                 \/ \E i \in DOMAIN below : below[i].seenUnsafePointerUseInInitialization ]

\* findUnsafePointerConversions for one file of one package: the functions
\* whose syntax is one of the nodes found, and the init function of the
\* package if a conversion was seen in no function
findUnsafePointerConversions(file) ==
    LET found == astWalk(file, <<>>, NoFunction)
    IN  { p \in PathsOf(file) : NodeAt(file, p).kind \in {"FuncDecl", "FuncLit"}
                               /\ p \in found.unsafeFunctionNodes }
          \cup (IF found.seenUnsafePointerUseInInitialization THEN {PackageInit} ELSE {})

\* the expressions of the files scanned: conversions and calls, at the top
\* of a function, in a function literal and in a literal within a literal
Pointer == Ident("u", UnsafePointer)

Conversions ==
    { CallExpr(ParenExpr(StarExpr(Ident("int", ToIntPointer), ToIntPointer)), <<Pointer>>, IntType),
      CallExpr(Ident("uintptr", ToUintptr), <<Pointer>>, IntType),
      CallExpr(Ident("addr", ToNamedUintptr), <<Pointer>>, IntType),
      CallExpr(Ident("T", ToIntPointer), <<Ident("v", NamedUnsafe)>>, IntType),
      CallExpr(Ident("T", ToIntPointer), <<Ident("i", IntType)>>, IntType),
      CallExpr(Ident("f", FuncType(1)), <<Pointer>>, IntType) }

InLiteral(e) == CallExpr(FuncLit(BlockStmt(<<ExprStmt(e)>>), FuncType(0)), <<>>, NoType)

ScannedExpressions ==
    Conversions \cup { InLiteral(e) : e \in Conversions }
                \cup { InLiteral(InLiteral(e)) : e \in Conversions }

ScannedFiles ==
    { File(<<FuncDecl("F", BlockStmt(<<ExprStmt(e1), ExprStmt(e2)>>)), GenDecl(<<e3>>)>>) :
        e1 \in ScannedExpressions, e2 \in Conversions \cup { InLiteral(e) : e \in Conversions },
        e3 \in Conversions \cup { InLiteral(e) : e \in Conversions } }

\* a scan of a file; roots are the nodes the analysis then starts from for
\* UNSAFE_POINTER when no function has a category
CallFindUnsafePointerConversions ==
    /\ loaderState = "init"
    /\ \E file \in ScannedFiles :
         answer' = [op |-> "findUnsafePointerConversions", file |-> file,
                    result |-> findUnsafePointerConversions(file),
                    roots |-> extraNodes(<< >>, findUnsafePointerConversions(file),
                                         "CAPABILITY_UNSAFE_POINTER")]
    /\ loaderState' = "asked"
    /\ UNCHANGED <<analysisVars, builderVars, internalMap, userMap, excludeBuiltin, loaded>>

(***************************************************************************)
(* C25: the functions flagged for a conversion of an unsafe.Pointer.       *)
(***************************************************************************)
AskedScan == loaderState = "asked" /\ answer.op = "findUnsafePointerConversions"

\* the proper prefixes of a path
Above(p) == { SubSeq(p, 1, n) : n \in 0..(Len(p) - 1) }

\* the function definitions that enclose the node at p
EnclosingFunctions(file, p) ==
    { f \in Above(p) : NodeAt(file, f).kind \in {"FuncDecl", "FuncLit"} }

\* the innermost of them, or the package's init function if there is none
InnermostFunction(file, p) ==
    IF EnclosingFunctions(file, p) = {} THEN PackageInit
    ELSE CHOOSE f \in EnclosingFunctions(file, p) :
           \A h \in EnclosingFunctions(file, p) : Len(h) <= Len(f)

\* the conversions of a value whose type has the underlying type
\* unsafe.Pointer to a type whose underlying type is not uintptr
UnsafeConversions(file) ==
    { p \in PathsOf(file) :
        \E n \in { NodeAt(file, p) } :
          /\ n.kind = "CallExpr" /\ Len(n.list) = 1
          /\ n.single[1].type.t = "type" /\ n.single[1].type.underlying # "uintptr"
          /\ n.list[1].type.underlying = "unsafe.Pointer" }

\* C25: the flagged functions are exactly the innermost enclosing function
\* of each conversion of an unsafe.Pointer to a type other than uintptr, the
\* package's init function standing for a conversion outside every
\* function; they, and no function that only encloses them, are the nodes
\* from which UNSAFE_POINTER is reported.
InnermostFunctionFlagged ==
    AskedScan =>
      /\ answer.result = { InnermostFunction(answer.file, p) : p \in UnsafeConversions(answer.file) }
      /\ answer.roots = answer.result

\* C25 witness: a conversion in a literal within a literal, in a file whose
\* declaration also holds a conversion to uintptr: the inner literal is
\* flagged, the literal around it and the declaration are not.
InnerLiteralFlagged ==
    /\ AskedScan
    /\ \E p \in answer.result :
         /\ Cardinality(EnclosingFunctions(answer.file, p)) = 2
         /\ EnclosingFunctions(answer.file, p) \cap answer.result = {}
    /\ \E p \in PathsOf(answer.file) :
         /\ NodeAt(answer.file, p).kind = "CallExpr"
         /\ NodeAt(answer.file, p).single[1].type.underlying = "uintptr"
         /\ Cardinality(EnclosingFunctions(answer.file, p)) = 1


(***************************************************************************)
(* The rewriter: calls of sync.Once.Do, sort.Slice and sort.SliceStable    *)
(* become calls of their function argument, and statements that call       *)
(* sort.Sort, sort.Stable or sort.IsSorted become calls of the methods of  *)
(* their argument.                                                         *)
(***************************************************************************)
OnceType        == TypeOf("named", "sync", "Once", "struct", {"Do"}, 0)
OncePointerType == TypeOf("pointer", "sync", "Once", "pointer", {"Do"}, 0)
OtherOnceType   == TypeOf("named", "a", "Once", "struct", {"Do"}, 0)
StructType      == TypeOf("named", "a", "structContainingOnce", "struct", {}, 0)
SortableType    == TypeOf("named", "a", "foo", "slice", {"Len", "Less", "Swap"}, 0)
SliceType       == TypeOf("basic", "", "[]int", "slice", {}, 0)

CompositeLit(elts, type)   == AstNode("CompositeLit", "", type, "", <<>>, elts)
IndexExpr(x, index, type)  == AstNode("IndexExpr", "", type, "", <<x, index>>, <<>>)
SliceExpr(x, low, high, type) == AstNode("SliceExpr", "", type, "", <<x, low, high, NilNode>>, <<>>)
TypeAssertExpr(x, type)    == AstNode("TypeAssertExpr", "", type, "", <<x>>, <<>>)
UnaryExpr(x)               == AstNode("UnaryExpr", "", x.type, "", <<x>>, <<>>)
BinaryExpr(x, y)           == AstNode("BinaryExpr", "", x.type, "", <<x, y>>, <<>>)
KeyValueExpr(key, value)   == AstNode("KeyValueExpr", "", NoType, "", <<key, value>>, <<>>)
IfStmt(init, body)         == AstNode("IfStmt", "", NoType, "", <<init, Ident("true", IntType), body>>, <<>>)
SwitchStmt(init, body)     == AstNode("SwitchStmt", "", NoType, "", <<init, BasicLit(IntType), body>>, <<>>)
TypeSwitchStmt(init, body) == AstNode("TypeSwitchStmt", "", NoType, "", <<init, ExprStmt(TypeAssertExpr(Ident("x", IntType), NoType)), body>>, <<>>)
ForStmt(init, post, body)  == AstNode("ForStmt", "", NoType, "", <<init, Ident("false", IntType), post, body>>, <<>>)
LabeledStmt(label, stmt)   == AstNode("LabeledStmt", label, NoType, "", <<stmt>>, <<>>)
CaseClause(body)           == AstNode("CaseClause", "", NoType, "", <<>>, body)
CommClause(comm, body)     == AstNode("CommClause", "", NoType, "", <<comm>>, body)
SelectStmt(body)           == AstNode("SelectStmt", "", NoType, "", <<body>>, <<>>)

\* mayHaveSideEffects
RECURSIVE mayHaveSideEffects(_)
mayHaveSideEffects(e) ==
    CASE e.kind \in {"Ident", "BasicLit"} -> FALSE
      [] e.kind = "nil" -> FALSE
      [] e.kind = "FuncLit" -> FALSE
      [] e.kind = "CallExpr" -> TRUE
      [] e.kind = "CompositeLit" -> \E i \in DOMAIN e.list : mayHaveSideEffects(e.list[i])
      [] e.kind \in {"ParenExpr", "SelectorExpr", "TypeAssertExpr", "StarExpr", "UnaryExpr"} ->
           mayHaveSideEffects(e.single[1])
      [] e.kind \in {"IndexExpr", "BinaryExpr", "KeyValueExpr"} ->
           mayHaveSideEffects(e.single[1]) \/ mayHaveSideEffects(e.single[2])
      [] e.kind = "IndexListExpr" ->
           \/ \E i \in DOMAIN e.list : mayHaveSideEffects(e.list[i])
           \/ mayHaveSideEffects(e.single[1])
      [] e.kind = "SliceExpr" ->
           \E i \in 1..4 : mayHaveSideEffects(e.single[i])
      [] OTHER -> TRUE

\* functionsToRewrite
MethodMatcher(pkg, typeName, methodName, index) ==
    [ matcher |-> "method", pkg |-> pkg, typeName |-> typeName, name |-> methodName,
      functionTypedParameterIndex |-> index ]

PackageFunctionMatcher(pkg, functionName, index) ==
    [ matcher |-> "function", pkg |-> pkg, typeName |-> "", name |-> functionName,
      functionTypedParameterIndex |-> index ]

functionsToRewrite ==
    << MethodMatcher("sync", "Once", "Do", 0),
       PackageFunctionMatcher("sort", "Slice", 1),
       PackageFunctionMatcher("sort", "SliceStable", 1) >>

\* a variant that gives up a call whose other arguments may have side effects
packageFunctionMatchKeepingCalls(m, call) ==
    LET callee == call.single[1]
    IN  IF \/ callee.kind # "SelectorExpr"
           \/ callee.single[1].kind # "Ident"
           \/ callee.single[1].uses = ""
           \/ callee.single[1].uses # m.pkg
           \/ callee.name # m.name
           \/ Len(call.list) <= m.functionTypedParameterIndex
           \/ \E i \in DOMAIN call.list :
                /\ i # m.functionTypedParameterIndex + 1
                /\ mayHaveSideEffects(call.list[i])
        THEN NilNode
        ELSE call.list[m.functionTypedParameterIndex + 1]

\* packageFunctionMatcher.match: the function-typed argument of a call of
\* the function of the package, or nil
packageFunctionMatch(m, call) ==
    LET callee == call.single[1]
    IN  IF \/ callee.kind # "SelectorExpr"
           \/ callee.single[1].kind # "Ident"
           \/ callee.single[1].uses = ""
           \/ callee.single[1].uses # m.pkg
           \/ callee.name # m.name
           \/ Len(call.list) <= m.functionTypedParameterIndex
        THEN NilNode
        ELSE call.list[m.functionTypedParameterIndex + 1]

\* a variant that does not look at the receiver
methodMatchAnyReceiver(m, call) ==
    LET sel == call.single[1]
    IN  IF \/ sel.kind # "SelectorExpr"
           \/ sel.single[1].type.t \notin {"named", "pointer"}
           \/ sel.single[1].type.pkg # m.pkg
           \/ sel.single[1].type.name # m.typeName
           \/ sel.name # m.name
           \/ Len(call.list) <= m.functionTypedParameterIndex
        THEN NilNode
        ELSE call.list[m.functionTypedParameterIndex + 1]

\* methodMatcher.match: the function-typed argument of a call of the
\* method on a receiver without side effects, or nil
methodMatch(m, call) ==
    LET sel == call.single[1]
    IN  IF sel.kind # "SelectorExpr" THEN NilNode
        ELSE IF mayHaveSideEffects(sel.single[1]) THEN NilNode
        ELSE IF \/ sel.single[1].type.t \notin {"named", "pointer"}
                \/ sel.single[1].type.pkg # "" /\ sel.single[1].type.pkg # m.pkg
                \/ sel.single[1].type.name # m.typeName
                \/ sel.name # m.name
                \/ Len(call.list) <= m.functionTypedParameterIndex
        THEN NilNode
        ELSE call.list[m.functionTypedParameterIndex + 1]

match(m, call) ==
    IF m.matcher = "method" THEN methodMatch(m, call) ELSE packageFunctionMatch(m, call)

\* isCallToOnceDoEtc: the argument the first matcher finds, or nil
RECURSIVE firstMatch(_, _)
firstMatch(ms, call) ==
    IF ms = <<>> THEN NilNode
    ELSE IF match(Head(ms), call) # NilNode THEN match(Head(ms), call)
    ELSE firstMatch(Tail(ms), call)

isCallToOnceDoEtc(node) ==
    IF node.kind # "ExprStmt" \/ node.single[1].kind # "CallExpr" THEN NilNode
    ELSE firstMatch(functionsToRewrite, node.single[1])

\* isCallToSort: the argument of a statement that calls sort.Sort,
\* sort.Stable or sort.IsSorted, or nil
isCallToSort(node) ==
    IF node.kind # "ExprStmt" \/ node.single[1].kind # "CallExpr" THEN NilNode
    ELSE LET call == node.single[1]
             callee == call.single[1]
         IN  IF \/ callee.kind # "SelectorExpr"
                \/ callee.single[1].kind # "Ident"
                \/ callee.single[1].uses # "sort"
                \/ callee.name \notin {"Sort", "Stable", "IsSorted"}
                \/ Len(call.list) # 1
             THEN NilNode
             ELSE call.list[1]

zeroLiteral == BasicLit(IntType)

\* statementCallingMethod, nil if the type of recv has no such method
statementCallingMethod(recv, methodName, args) ==
    IF methodName \notin recv.type.methods THEN NilNode
    ELSE ExprStmt(CallExpr(SelectorExpr(recv, methodName, FuncType(Len(args))), args, NoType))

statementCallingFunctionObject(fn, args) == ExprStmt(CallExpr(fn, args, NoType))

\* a variant that rewrites a statement wherever it stands
canRewriteAnywhere(parent, index) == TRUE

\* the positions in which one statement can be replaced by a block
canRewrite(parent, index) ==
    \/ parent \in {"BlockStmt", "CaseClause", "LabeledStmt"}
    \/ parent = "CommClause" /\ index >= 0

\* the function pre of rewriteCallsToSort for a node whose children have
\* been walked: the node that stands in its place afterwards
preSort(node, parent, index) ==
    IF node.kind \notin {"ExprStmt", "BlockStmt", "IfStmt", "SwitchStmt", "TypeSwitchStmt",
                         "ForStmt", "LabeledStmt", "CaseClause", "CommClause", "SelectStmt"}
    THEN node
    ELSE IF ~canRewrite(parent, index) THEN node
    ELSE LET obj == isCallToSort(node)
             s1 == statementCallingMethod(obj, "Less", <<zeroLiteral, zeroLiteral>>)
             s2 == statementCallingMethod(obj, "Swap", <<zeroLiteral, zeroLiteral>>)
             s3 == statementCallingMethod(obj, "Len", <<>>)
         IN  IF obj = NilNode THEN node
             ELSE IF s1 = NilNode \/ s2 = NilNode \/ s3 = NilNode THEN node
             ELSE BlockStmt(<<s1, s2, s3>>)

\* the function pre of rewriteCallsToOnceDoEtc
preOnceDoEtc(node) ==
    LET obj == isCallToOnceDoEtc(node)
    IN  IF obj = NilNode THEN node
        ELSE IF obj.type.t # "signature" THEN node
        ELSE statementCallingFunctionObject(obj, [ i \in 1..obj.type.params |-> zeroLiteral ])

\* astutil.Apply with one of the two functions.  Apply replaces the node and
\* then walks the children of the node it replaced; the expressions that the
\* replacement took over from it are the same objects, so what is rewritten
\* in them is rewritten in the replacement.
RECURSIVE apply(_, _, _, _)
apply(rewrite, node, parent, index) ==
    IF node.kind = "nil" THEN node
    ELSE LET walked ==
               [ node EXCEPT
                   !.single = [ i \in DOMAIN node.single |->
                                  apply(rewrite, node.single[i], node.kind, 0 - 1) ],
                   !.list = [ i \in DOMAIN node.list |->
                                apply(rewrite, node.list[i], node.kind, i - 1) ] ]
         IN  IF rewrite = "sort" THEN preSort(walked, parent, index)
             ELSE preOnceDoEtc(walked)

\* rewriteCallsToSort and rewriteCallsToOnceDoEtc on one declaration
rewriteCallsToSort(decl) == apply("sort", decl, "File", 0)

rewriteCallsToOnceDoEtc(decl) == apply("once", decl, "File", 0)

\* the statements given to rewriteCallsToOnceDoEtc
CallsFoo ==
    FuncLit(BlockStmt(<<ExprStmt(CallExpr(SelectorExpr(PkgIdent("callos", "callos"), "Foo",
                                                      FuncType(0)), <<>>, NoType))>>),
            FuncType(0))

CallOf(name, type) == CallExpr(Ident(name, FuncType(0)), <<>>, type)

OnceBases ==
    { Ident("once", OnceType),
      Ident("ponce", OncePointerType),
      Ident("other", OtherOnceType),
      CallOf("getOnce", OncePointerType),
      CompositeLit(<<>>, StructType),
      CompositeLit(<<KeyValueExpr(Ident("b", NoType), CallOf("newOnce", OnceType))>>, StructType),
      CompositeLit(<<KeyValueExpr(Ident("f", NoType), CallsFoo)>>, StructType) }

Wrapped(S) ==
    S \cup { SelectorExpr(e, "b", OnceType) : e \in S }
      \cup { ParenExpr(e) : e \in S }
      \cup { StarExpr(e, OnceType) : e \in S }
      \cup { UnaryExpr(e) : e \in S }
      \cup { BinaryExpr(e, CallOf("g", IntType)) : e \in S }
      \cup { IndexExpr(e, zeroLiteral, OnceType) : e \in S }
      \cup { IndexExpr(e, CallOf("index", IntType), OnceType) : e \in S }
      \cup { SliceExpr(e, zeroLiteral, CallOf("high", IntType), e.type) : e \in S }
      \cup { TypeAssertExpr(e, OncePointerType) : e \in S }

Receivers == Wrapped(Wrapped(OnceBases))

FunctionArguments ==
    { CallsFoo, Ident("fn", FuncType(0)), Ident("notAFunction", IntType),
      CallOf("getFn", FuncType(0)) }

DoStatement(x, method, fn) ==
    ExprStmt(CallExpr(SelectorExpr(x, method, FuncType(1)), <<fn>>, NoType))

SliceStatement(pkg, name, args) ==
    ExprStmt(CallExpr(SelectorExpr(PkgIdent("sort", pkg), name, FuncType(2)), args, NoType))

Less2 == Ident("less", FuncType(2))

OnceStatements ==
    { DoStatement(x, "Do", fn) : x \in Receivers, fn \in FunctionArguments }
      \cup { DoStatement(Ident("once", OnceType), "Done", CallsFoo) }
      \cup { SliceStatement(pkg, name, <<s, Less2>>) :
               pkg \in {"sort", "a/sort"}, name \in {"Slice", "SliceStable", "Sort"},
               s \in { Ident("s", SliceType), CallOf("f", SliceType),
                       SelectorExpr(CallOf("get", StructType), "a", SliceType) } }
      \cup { SliceStatement("sort", "Slice", <<Ident("s", SliceType)>>) }

StatementOf(decl) == decl.single[1].list[1]

CallRewriteCallsToOnceDoEtc ==
    /\ loaderState = "init"
    /\ \E stmt \in OnceStatements :
         LET decl == FuncDecl("f", BlockStmt(<<stmt>>))
         IN  answer' = [op |-> "rewriteCallsToOnceDoEtc", decl |-> decl,
                        result |-> rewriteCallsToOnceDoEtc(decl)]
    /\ loaderState' = "asked"
    /\ UNCHANGED <<analysisVars, builderVars, internalMap, userMap, excludeBuiltin, loaded>>

AskedOnceDoEtc == loaderState = "asked" /\ answer.op = "rewriteCallsToOnceDoEtc"

\* the expressions of a tree that stand in no function literal of the tree
OutsideLiterals(e) ==
    { p \in PathsOf(e) : \A above \in Above(p) : NodeAt(e, above).kind # "FuncLit" }

Contains(e, kinds) == \E p \in OutsideLiterals(e) : NodeAt(e, p).kind \in kinds

\* the receiver of a statement x.Do(fn)
IsDo(stmt) ==
    /\ stmt.single[1].single[1].kind = "SelectorExpr"
    /\ stmt.single[1].single[1].name = "Do"

ReceiverOf(stmt) == stmt.single[1].single[1].single[1]

Calls(tree) ==
    { NodeAt(tree, p).single[1] : p \in { r \in PathsOf(tree) : NodeAt(tree, r).kind = "CallExpr" } }

Rewritten == AskedOnceDoEtc /\ answer.result # answer.decl

\* the calls of the statement other than the call that is rewritten
OtherCalls(stmt) == Calls(stmt) \ { stmt.single[1].single[1] }

LostCalls == OtherCalls(StatementOf(answer.decl)) \ Calls(StatementOf(answer.result))

\* the statements sort.Slice(x, fn) and sort.SliceStable(x, fn) with fn of a
\* function type
IsSlice(stmt) ==
    /\ stmt.single[1].single[1].kind = "SelectorExpr"
    /\ stmt.single[1].single[1].single[1].uses = "sort"
    /\ stmt.single[1].single[1].name \in {"Slice", "SliceStable"}
    /\ Len(stmt.single[1].list) >= 2
    /\ stmt.single[1].list[2].type.t = "signature"

\* C29 as stated: every call of a rewritten statement, other than the call
\* of the sort / Once.Do function, still occurs in the replacement.
RewritingKeepsEveryCall == Rewritten => LostCalls = {}

\* C29, what the code does: a statement x.Do(fn) is rewritten only if x
\* holds no call outside its function literals, and the calls that are lost
\* are those of the function literals of x; sort.Slice(x, fn) and
\* sort.SliceStable(x, fn) are rewritten to fn(0, 0) whatever x is, and the
\* calls that are lost are the calls of x.  The calls of fn are kept.
RewritingKeepsCallsOfFunctionArgument ==
    AskedOnceDoEtc =>
        LET stmt == StatementOf(answer.decl)
            fn == isCallToOnceDoEtc(stmt)
        IN  /\ Rewritten => IsDo(stmt) \/ IsSlice(stmt)
            /\ Rewritten => Calls(fn) \subseteq Calls(StatementOf(answer.result))
            /\ Rewritten /\ IsDo(stmt) =>
                 /\ ~Contains(ReceiverOf(stmt), {"CallExpr"})
                 /\ LostCalls = Calls(ReceiverOf(stmt)) \ Calls(fn)
            /\ IsSlice(stmt) =>
                 /\ StatementOf(answer.result) =
                      statementCallingFunctionObject(stmt.single[1].list[2],
                                                     <<zeroLiteral, zeroLiteral>>)
                 /\ LostCalls = Calls(stmt.single[1].list[1])

\* C29 witness: sort.Slice(f(), less) has become less(0, 0)
SliceArgumentCallLost ==
    /\ Rewritten
    /\ IsSlice(StatementOf(answer.decl))
    /\ LostCalls # {}


\* the statements given to rewriteCallsToSort
SortStatement(pkg, name, args) ==
    ExprStmt(CallExpr(SelectorExpr(PkgIdent("sort", pkg), name, FuncType(1)), args, NoType))

SortArguments ==
    { Ident("s", SortableType), Ident("nil", UntypedNil), Ident("b", SliceType) }

SortStatements ==
    { SortStatement(pkg, name, <<x>>) :
        pkg \in {"sort", "a/sort"}, name \in {"Sort", "Stable", "IsSorted", "Slice"},
        x \in SortArguments }
      \cup { SortStatement("sort", "Sort", <<Ident("s", SortableType), Ident("s", SortableType)>>) }

Receive == ExprStmt(UnaryExpr(Ident("ch", IntType)))

NoBody == BlockStmt(<<>>)

\* the places of a statement in a function body
Places(stmt) ==
    { stmt,
      BlockStmt(<<stmt>>),
      LabeledStmt("foo", stmt),
      IfStmt(stmt, NoBody),
      IfStmt(NilNode, BlockStmt(<<stmt>>)),
      SwitchStmt(stmt, NoBody),
      SwitchStmt(NilNode, BlockStmt(<<CaseClause(<<stmt>>)>>)),
      TypeSwitchStmt(stmt, NoBody),
      ForStmt(stmt, NilNode, NoBody),
      ForStmt(NilNode, stmt, NoBody),
      ForStmt(stmt, stmt, BlockStmt(<<stmt>>)),
      SelectStmt(BlockStmt(<<CommClause(Receive, <<stmt>>)>>)),
      SelectStmt(BlockStmt(<<CommClause(NilNode, <<stmt>>)>>)),
      IfStmt(ExprStmt(CallExpr(FuncLit(BlockStmt(<<stmt>>), FuncType(0)), <<>>, NoType)), NoBody) }

SortInS == SortStatement("sort", "Sort", <<Ident("s", SortableType)>>)

CallRewriteCallsToSort ==
    /\ loaderState = "init"
    /\ \E stmt \in SortStatements :
         \E first \in Places(stmt), second \in Places(SortInS) \cup {Receive} :
           LET decl == FuncDecl("f", BlockStmt(<<first, second>>))
           IN  answer' = [op |-> "rewriteCallsToSort", decl |-> decl,
                          result |-> rewriteCallsToSort(decl)]
    /\ loaderState' = "asked"
    /\ UNCHANGED <<analysisVars, builderVars, internalMap, userMap, excludeBuiltin, loaded>>

AskedSort == loaderState = "asked" /\ answer.op = "rewriteCallsToSort"

StatementKinds ==
    {"ExprStmt", "BlockStmt", "IfStmt", "SwitchStmt", "TypeSwitchStmt", "ForStmt",
     "LabeledStmt", "CaseClause", "CommClause", "SelectStmt"}

\* a statement that calls sort.Sort, sort.Stable or sort.IsSorted with one
\* argument
IsSort(node) ==
    /\ node.kind = "ExprStmt"
    /\ node.single[1].kind = "CallExpr"
    /\ node.single[1].single[1].kind = "SelectorExpr"
    /\ node.single[1].single[1].single[1].uses = "sort"
    /\ node.single[1].single[1].name \in {"Sort", "Stable", "IsSorted"}
    /\ Len(node.single[1].list) = 1

Front(p) == SubSeq(p, 1, Len(p) - 1)

\* the statement at p is directly in a block, a case clause or a labeled
\* statement, or in the body of a communication clause
InListOrLabel(tree, p) ==
    /\ p # <<>>
    /\ LET parent == NodeAt(tree, Front(p))
       IN  \/ parent.kind \in {"BlockStmt", "CaseClause", "LabeledStmt"}
           \/ parent.kind = "CommClause" /\ p[Len(p)] > Len(parent.single)

\* the places of the tree where a sort statement gives way to a block
Replaced(tree) ==
    { p \in PathsOf(tree) :
        /\ IsSort(NodeAt(tree, p))
        /\ {"Len", "Less", "Swap"} \subseteq NodeAt(tree, p).single[1].list[1].type.methods
        /\ InListOrLabel(tree, p) }

MethodCalls(x) ==
    BlockStmt(<< ExprStmt(CallExpr(SelectorExpr(x, "Less", FuncType(2)),
                                   <<zeroLiteral, zeroLiteral>>, NoType)),
                 ExprStmt(CallExpr(SelectorExpr(x, "Swap", FuncType(2)),
                                   <<zeroLiteral, zeroLiteral>>, NoType)),
                 ExprStmt(CallExpr(SelectorExpr(x, "Len", FuncType(0)), <<>>, NoType)) >>)

\* C27: a statement sort.Sort(x) is replaced by the block of the three
\* method calls exactly where it stands directly in a block, a case clause,
\* a labeled statement or the body of a communication clause and x has the
\* methods Len, Less and Swap; as the init statement of an if, switch or
\* type switch, as the init or post statement of a for loop, or with an
\* argument without the methods it is left as it is, and so is every other
\* statement of the tree.
SortRewrittenOnlyWhereABlockFits ==
    AskedSort =>
        \A replaced \in { Replaced(answer.decl) } :
          \A p \in PathsOf(answer.decl) :
            (Above(p) \cap replaced = {}) =>
                /\ (p \in replaced) =>
                     NodeAt(answer.result, p) =
                       MethodCalls(NodeAt(answer.decl, p).single[1].list[1])
                /\ (/\ NodeAt(answer.decl, p).kind \in StatementKinds
                    /\ \A r \in replaced : p \notin Above(r) \cup {r}) =>
                     NodeAt(answer.result, p) = NodeAt(answer.decl, p)

\* C27 witness: the same statement replaced in a labeled statement and kept
\* as the init statement of an if statement
SortKeptAsInitStatement ==
    /\ AskedSort
    /\ Replaced(answer.decl) # {}
    /\ \E p \in PathsOf(answer.decl) :
         /\ NodeAt(answer.decl, p) = SortInS
         /\ p # <<>>
         /\ NodeAt(answer.decl, Front(p)).kind = "IfStmt"
         /\ NodeAt(answer.result, p) = SortInS
    /\ \E p \in Replaced(answer.decl) : NodeAt(answer.decl, Front(p)).kind = "LabeledStmt"


(***************************************************************************)
(* Part X.  The analysis of a rewritten program.  A function is named by   *)
(* its package, its receiver type and its name.  buildGraph rewrites the   *)
(* syntax and has the call graph built from it; the graph holds an edge    *)
(* for every call of a function or of a method of a concrete type, and,    *)
(* for a function of package sort that takes a sort.Interface, an edge to  *)
(* the methods of every type passed to that function in the program.       *)
(***************************************************************************)
FunctionId(pkg, type, name) == <<pkg, type, name>>

FooType == TypeOf("named", "transitive", "foo", "slice", {"Len", "Less", "Swap"}, 0)
BarType == TypeOf("named", "transitive", "bar", "slice", {"Len", "Less", "Swap"}, 0)

NoCallee == FunctionId("", "", "")

\* the function a call expression calls, if the call is static
staticCallee(call) ==
    LET fun == call.single[1]
    IN  IF fun.kind # "SelectorExpr" THEN NoCallee
        ELSE IF fun.single[1].kind = "Ident" /\ fun.single[1].uses # ""
        THEN FunctionId(fun.single[1].uses, "", fun.name)
        ELSE IF fun.single[1].type.t = "named" /\ fun.name \in fun.single[1].type.methods
        THEN FunctionId(fun.single[1].type.pkg, fun.single[1].type.name, fun.name)
        ELSE NoCallee

CallExpressions(decl) ==
    { NodeAt(decl, p) : p \in { r \in PathsOf(decl) : NodeAt(decl, r).kind = "CallExpr" } }

\* the edges of the call graph of a program
callGraph(pkgs) ==
    LET static ==
          UNION { { <<f, staticCallee(c)>> : c \in CallExpressions(pkgs[f]) } : f \in DOMAIN pkgs }
        passed(s) ==
          UNION { { c.list[1].type : c \in { d \in CallExpressions(pkgs[f]) :
                                               /\ staticCallee(d) = s
                                               /\ Len(d.list) = 1 } } : f \in DOMAIN pkgs }
        dynamic ==
          UNION { UNION { { <<FunctionId("sort", "", s), FunctionId(t.pkg, t.name, m)>> :
                              m \in t.methods \cap {"Len", "Less", "Swap"} } :
                            t \in passed(FunctionId("sort", "", s)) } :
                  s \in {"Sort", "Stable", "IsSorted"} }
    IN  { e \in static : e[2] # NoCallee } \cup dynamic

\* a variant that leaves the syntax as it is
buildGraphWithoutRewriting(pkgs) == callGraph(pkgs)

\* buildGraph
buildGraph(pkgs) ==
    callGraph([ f \in DOMAIN pkgs |-> rewriteCallsToOnceDoEtc(rewriteCallsToSort(pkgs[f])) ])

\* what the capability map says of the functions of the program
programCategory(f) ==
    IF f = FunctionId("os", "", "Getpid") THEN "CAPABILITY_READ_SYSTEM_STATE"
    ELSE IF f[1] = "sort" /\ f[3] \in {"Sort", "Stable", "IsSorted"} THEN "CAPABILITY_UNANALYZED"
    ELSE "CAPABILITY_UNSPECIFIED"

NodesOf(g) == { e[1] : e \in g } \cup { e[2] : e \in g }

\* the search of forEachPath for one capability, by distance: the nodes with
\* the capability, then the callers that are not safe, not visited and have
\* no categorization of their own
RECURSIVE searchLayers(_, _, _, _, _)
searchLayers(g, explicit, seen, frontier, layers) ==
    IF frontier = {} THEN layers
    ELSE LET callers == { e[1] : e \in { d \in g : d[2] \in frontier } }
                          \ (seen \cup explicit)
         IN  searchLayers(g, explicit, seen \cup callers, callers, Append(layers, callers))

\* the paths that the states of the search can describe from w
RECURSIVE pathsFrom(_, _, _, _)
pathsFrom(g, layers, w, d) ==
    IF d = 1 THEN { <<w>> }
    ELSE { <<w>> \o p :
             p \in UNION { pathsFrom(g, layers, v, d - 1) :
                             v \in { u \in layers[d - 1] : <<w, u>> \in g } } }

\* forEachPath: for every capability and every function of the queried
\* packages that reaches it, the capability, the function and the paths
forEachPath(g, queried) ==
    LET explicit == { v \in NodesOf(g) : programCategory(v) # "CAPABILITY_UNSPECIFIED" }
        found(c) ==
          LET nodes == { v \in explicit : programCategory(v) = c }
              layers == searchLayers(g, explicit, nodes, nodes, <<nodes>>)
          IN  UNION { { [fn |-> w, cap |-> c, paths |-> pathsFrom(g, layers, w, d)] :
                          w \in { v \in layers[d] : v[1] \in queried } } :
                      d \in DOMAIN layers }
    IN  UNION { found(c) : c \in { programCategory(v) : v \in explicit } }

\* the programs: Sorts sorts a foo, whose method named by interesting calls
\* callos.Foo, which calls os.Getpid; SortsBar sorts a bar, whose methods
\* call callutf8.Foo at most
CallsTo(pkg, name) ==
    ExprStmt(CallExpr(SelectorExpr(PkgIdent(pkg, pkg), name, FuncType(0)), <<>>, NoType))

Sorts    == FunctionId("transitive", "", "InterestingSort")
SortsBar == FunctionId("transitive", "", "UninterestingSort")

Methods(type, calling, callee) ==
    [ f \in { FunctionId("transitive", type, m) : m \in {"Len", "Less", "Swap"} } |->
        FuncDecl(f[3], BlockStmt(IF f[3] = calling THEN <<callee>> ELSE <<>>)) ]

SortPlaces(stmt) ==
    { stmt, LabeledStmt("foo", stmt), IfStmt(NilNode, BlockStmt(<<stmt>>)), IfStmt(stmt, NoBody) }

SortingPrograms ==
    { [ program |->
          (Sorts :> FuncDecl("InterestingSort", BlockStmt(<<first>>)))
          @@ (SortsBar :> FuncDecl("UninterestingSort", BlockStmt(<<second>>)))
          @@ Methods("foo", m, CallsTo("callos", "Foo"))
          @@ Methods("bar", "Less", CallsTo("callutf8", "Foo"))
          @@ (FunctionId("callos", "", "Foo") :> FuncDecl("Foo", BlockStmt(<<CallsTo("os", "Getpid")>>)))
          @@ (FunctionId("callutf8", "", "Foo") :> FuncDecl("Foo", NoBody)),
        interesting |-> m ] :
        m \in {"Len", "Less", "Swap"},
        first \in UNION { SortPlaces(SortStatement("sort", s, <<Ident("f", FooType)>>)) :
                            s \in {"Sort", "Stable", "IsSorted"} },
        second \in UNION { SortPlaces(SortStatement("sort", s, <<Ident("b", BarType)>>)) :
                             s \in {"Sort", "Stable"} } }

CallForEachPath ==
    /\ loaderState = "init"
    /\ \E p \in SortingPrograms :
         answer' = [op |-> "forEachPath", program |-> p.program, interesting |-> p.interesting,
                    result |-> forEachPath(buildGraph(p.program), {"transitive"}),
                    unrewritten |-> forEachPath(buildGraphWithoutRewriting(p.program),
                                                {"transitive"})]
    /\ loaderState' = "asked"
    /\ UNCHANGED <<analysisVars, builderVars, internalMap, userMap, excludeBuiltin, loaded>>

AskedForEachPath == loaderState = "asked" /\ answer.op = "forEachPath"

FindingsOf(findings, f) == { [fn |-> x.fn, cap |-> x.cap] : x \in { y \in findings : y.fn = f } }

PathsOfFinding(findings, f, c) ==
    UNION { x.paths : x \in { y \in findings : y.fn = f /\ y.cap = c } }

\* the one statement of the function is a sort statement that is rewritten
SortIsRewritten(f) == Replaced(answer.program[f]) # {}

SortedFunctions == {Sorts, SortsBar}

NextSyntax ==
    \/ CallFindUnsafePointerConversions
    \/ CallRewriteCallsToOnceDoEtc
    \/ CallRewriteCallsToSort
    \/ CallForEachPath

SpecSyntax == InitClassifier /\ [][NextSyntax]_vars

\* the calls of the functions that keep no state
NextCalls ==
    \/ CallBothForms
    \/ CallParseCapabilitiesList
    \/ CallNewCapabilitySet
    \/ CallDiffCapabilityInfoLists
    \/ CallDiffCapabilityInfoListsGitDiff
    \/ CallMain

SpecCalls == InitClassifier /\ [][NextCalls]_vars

====
